---- MODULE Spec2Model ----
(***************************************************************************)
(* A model of crawshaw.io/iox.                                             *)
(*                                                                         *)
(* Spec, FairSpec: package webfetch, the single-flight HTTP client         *)
(* (Client.Do, the fetcher's fetch task, the response body's Close) and    *)
(* its two-phase Client.Shutdown.                                          *)
(* FilerSpec, FairFilerSpec: the Filer, its admission tokens, the File     *)
(* handles and Filer.Shutdown.                                             *)
(* BufferSpec: the BufferFile, its memory prefix and its spill file.       *)
(*                                                                         *)
(* Every section of code that runs with Client.mu held is one action, so   *)
(* every state of the model is a state in which the mutex is free.  The    *)
(* blocking points of the code (the channel receives, the transport, the   *)
(* cache callbacks) separate the actions.                                  *)
(***************************************************************************)
EXTENDS Integers, FiniteSets, Sequences, TLC

\* Number of goroutines that call Client.Do, each once.
NCallers == 2

Callers == 1 .. NCallers

\* The URL strings of the requests (req.URL.String()).
URLs == {"a", "b"}

\* A fetcher is named after the caller whose Do allocated it.
FIDs == Callers

\* The nil *fetcher.
NoF == 0

\* The HTTP status codes the transport answers with; 0 is the StatusCode of
\* a zero http.Response (f.res == nil).
Statuses == {200, 404}

VARIABLES
    \* Client configuration: whether the CacheGet / CachePut fields are set.
    CacheGet, CachePut,
    \* Client state.
    fetchers,      \* c.fetchers: URL -> fetcher (NoF when the key is absent)
    shutdown,      \* c.shutdown is closed
    shutdownDone,  \* number of close(c.shutdownDone) executed
    ctxDone,       \* c.ctx is cancelled (cancelFn was called)
    \* The heap of fetcher objects.
    fetcher,
    \* The callers of Do.
    pc, url, cf, result, frc, closeErr,
    status,        \* the StatusCode of the response Do returned, per caller
    body,          \* what reading the response body to its end gave, per caller
    \* Client.Shutdown(ctx) and the ctx it was given.
    pcS, shutdownCtxDone,
    \* History: per caller, whether a 200 fetch of its URL had already been
    \* stored by CachePut when its Do registered.
    afterStore,
    \* History: whether the registry held a fetcher when Shutdown began.
    inFlightAtShutdown,
    \* History: the calls made so far by a goroutine that held c.mu.
    underMu

VARIABLES
    \* The Filer.
    limiter,       \* number of tokens in the channel f.limiter
    draining,      \* Filer.Shutdown has begun
    \* The goroutines that use the Filer, each with the File it opens.
    fpc, fop, file, ferr, cerr,
    \* Filer.Shutdown(ctx) and the ctx it was given.
    fpcS, filerCtxDone, shutdownErr,
    \* A goroutine panicked: the process is gone.
    panicked

filerVars == <<limiter, draining, fpc, fop, file, ferr, cerr,
               fpcS, filerCtxDone, shutdownErr, panicked>>

VARIABLES
    \* A BufferFile of the Filer.
    bufMax,        \* bf.bufMax
    bf,            \* its other fields, and the os file under bf.f
    ret,           \* what the last call on it returned
    nops,          \* number of calls made on it
    reach          \* History: the furthest end of a Write or target of a Seek

VARIABLES
    \* The ioxtest.Tester that compares the BufferFile with an os file.
    f2,            \* the os file ft.F2: its contents and its position
    ft             \* the Tester's fields, and what its T and its loop hold

testerVars == <<f2, ft>>

bufferVars == <<bufMax, bf, ret, nops, reach, testerVars>>

clientVars == <<fetchers, shutdown, shutdownDone, ctxDone>>
callerVars == <<pc, url, cf, result, frc, closeErr, status, body>>
\* What the Client is configured with: the cache callbacks and the Filer,
\* whose files the model of the Client leaves alone.
configVars == <<CacheGet, CachePut, filerVars, bufferVars>>
histVars == <<afterStore, inFlightAtShutdown, underMu>>

vars == <<CacheGet, CachePut, fetchers, shutdown, shutdownDone, ctxDone,
          fetcher, pc, url, cf, result, frc, closeErr, status, body,
          pcS, shutdownCtxDone, afterStore, inFlightAtShutdown, underMu,
          filerVars,
          bufferVars>>

\* A fetcher that was never allocated.
NoFetcher ==
    [exists |-> FALSE, url |-> "", reqs |-> 0,
     done |-> 0,       \* number of close(f.done) executed
     res |-> 0,        \* f.res.StatusCode, 0 while f.res == nil
     err |-> "nil",    \* f.err
     closed |-> 0,     \* number of f.f.Close() executed on the BufferFile
     pcF |-> "none",   \* where the fetch goroutine stands
     got |-> "none",   \* what fetchFromCache found
     gets |-> 0, calls |-> 0, puts |-> 0,  \* CacheGet, transport, CachePut calls
     \* History: the fetch was blocked in the transport when the root context
     \* was cancelled.
     atRootCancel |-> FALSE]

\* &fetcher{c: c, url: urlstr, reqs: 1, f: c.Filer.BufferFile(0), done: make(chan struct{})}
\* followed by go f.fetch(req).
NewFetcher(u) ==
    [NoFetcher EXCEPT !.exists = TRUE, !.url = u, !.reqs = 1, !.pcF = "start"]

Min(a, b) == IF a < b THEN a ELSE b

\* Number of goroutines that use the Filer, each opening at most one file.
NProcs == 3

Procs == 1 .. NProcs

\* NewFiler(fdLimit): the capacity of the channel f.limiter.
fdLimit == 2

\* A goroutine's *File before it has one.
NoFile == [os |-> "none", isTemp |-> FALSE, forced |-> FALSE, unlinks |-> 0]

\* NewFiler: an empty limiter.  No goroutine has called the Filer yet.
FilerFresh ==
    /\ limiter = 0
    /\ draining = FALSE
    /\ fpc = [p \in Procs |-> "idle"]
    /\ fop = [p \in Procs |-> "none"]
    /\ file = [p \in Procs |-> NoFile]
    /\ ferr = [p \in Procs |-> "none"]
    /\ cerr = [p \in Procs |-> "none"]
    /\ fpcS = "idle"
    /\ filerCtxDone = FALSE
    /\ shutdownErr = "none"
    /\ panicked = FALSE

\* The largest memSize a BufferFile is made with.
MaxBufMax == 2

\* The longest slice given to Write and to Read.
MaxLen == 2

\* The number of calls made on the BufferFile.
MaxOps == 4

\* The bytes written; 0 is the byte that fills a gap.
Bytes == {1, 2}

\* What no call has returned yet.
NoRet == [op |-> "none", n |-> 0, err |-> "nil", data |-> <<>>]

\* f.BufferFile(m): &BufferFile{filer: f, bufMax: m}.  The os file is kept
\* with the BufferFile: its contents and its position.
BufferNew(m) ==
    /\ bufMax = m
    /\ bf = [buf |-> <<>>, f |-> "nil", flen |-> 0, off |-> 0, err |-> "nil",
             fdata |-> <<>>, fpos |-> 0]
    /\ ret = NoRet
    /\ nops = 0
    /\ reach = 0

\* No Tester was made.
NoTester == [NumEvents |-> 0, off |-> 0, len |-> 0, i |-> 0, failed |-> FALSE,
             op |-> "none", compared |-> FALSE, nFinal |-> 0, out |-> <<>>]

\* An os file just created: empty, at position 0.
NewFile == [data |-> <<>>, pos |-> 0]

TesterIdle ==
    /\ f2 = NewFile
    /\ ft = NoTester

\* A Client on which nothing was called yet.
ClientFresh ==
    /\ fetchers = [u \in URLs |-> NoF]
    /\ shutdown = FALSE
    /\ shutdownDone = 0
    /\ ctxDone = FALSE
    /\ fetcher = [f \in FIDs |-> NoFetcher]
    /\ pc = [c \in Callers |-> "idle"]
    /\ url = [c \in Callers |-> ""]
    /\ cf = [c \in Callers |-> NoF]
    /\ result = [c \in Callers |-> "none"]
    /\ frc = [c \in Callers |-> "none"]
    /\ closeErr = [c \in Callers |-> "none"]
    /\ status = [c \in Callers |-> 0]
    /\ body = [c \in Callers |-> "none"]
    /\ pcS = "idle"
    /\ shutdownCtxDone = FALSE
    /\ afterStore = [c \in Callers |-> FALSE]
    /\ inFlightAtShutdown = FALSE
    /\ underMu = {}

Init ==
    /\ CacheGet \in BOOLEAN
    /\ CachePut \in BOOLEAN
    /\ ClientFresh
    /\ FilerFresh
    /\ BufferNew(1)
    /\ TesterIdle

(***************************************************************************)
(* The part of the state the cleanup code works on, as one value.          *)
(***************************************************************************)
ClientState == [fetcher |-> fetcher, fetchers |-> fetchers, shutdownDone |-> shutdownDone]

Registered(reg) == {u \in URLs : reg[u] # NoF}

\* Mutant of reqCleanupLocked: the registry key is not deleted.
reqCleanupLockedKeepsKey(st, f) ==
    IF st.fetcher[f].reqs # 0
    THEN st
    ELSE [st EXCEPT !.fetcher = [st.fetcher EXCEPT ![f].closed = Min(@ + 1, 2)]]

\* Mutant of reqCleanupLocked: the BufferFile is not closed.
reqCleanupLockedNoClose(st, f) ==
    IF st.fetcher[f].reqs # 0
    THEN st
    ELSE LET reg == [st.fetchers EXCEPT ![st.fetcher[f].url] = NoF]
         IN  [fetcher |-> st.fetcher,
              fetchers |-> reg,
              shutdownDone |->
                  IF Registered(reg) = {} /\ shutdown
                  THEN Min(st.shutdownDone + 1, 2)
                  ELSE st.shutdownDone]

\* Mutant of reqCleanupLocked: shutdownDone is closed whatever the registry
\* still holds.
reqCleanupLockedAnyRegistry(st, f) ==
    IF st.fetcher[f].reqs # 0
    THEN st
    ELSE LET reg == [st.fetchers EXCEPT ![st.fetcher[f].url] = NoF]
         IN  [fetcher |-> [st.fetcher EXCEPT ![f].closed = Min(@ + 1, 2)],
              fetchers |-> reg,
              shutdownDone |->
                  IF shutdown
                  THEN Min(st.shutdownDone + 1, 2)
                  ELSE st.shutdownDone]

\* fetcher.reqCleanupLocked: with reqs at 0, close the BufferFile, delete the
\* registry key and, when the registry is empty and shutdown is closed,
\* close shutdownDone.
reqCleanupLocked(st, f) ==
    IF st.fetcher[f].reqs # 0
    THEN st
    ELSE LET reg == [st.fetchers EXCEPT ![st.fetcher[f].url] = NoF]
         IN  [fetcher |-> [st.fetcher EXCEPT ![f].closed = Min(@ + 1, 2)],
              fetchers |-> reg,
              shutdownDone |->
                  IF Registered(reg) = {} /\ shutdown
                  THEN Min(st.shutdownDone + 1, 2)
                  ELSE st.shutdownDone]

\* Mutant of reqCleanup: reqs is not decremented.
reqCleanupNoDecrement(st, f) ==
    IF st.fetcher[f].reqs = 0
    THEN [st |-> st, err |-> "Canceled"]
    ELSE [st |-> reqCleanupLocked(st, f), err |-> "nil"]

\* Mutant of reqCleanup: no check for a fetcher that a forced shutdown reaped.
reqCleanupNoCheck(st, f) ==
    [st |-> reqCleanupLocked(
                [st EXCEPT !.fetcher = [st.fetcher EXCEPT ![f].reqs = @ - 1]], f),
     err |-> "nil"]

\* fetcher.reqCleanup: the state it leaves and the error it returns.
reqCleanup(st, f) ==
    IF st.fetcher[f].reqs = 0
    THEN [st |-> st, err |-> "Canceled"]
    ELSE [st |-> reqCleanupLocked(
                    [st EXCEPT !.fetcher = [st.fetcher EXCEPT ![f].reqs = @ - 1]], f),
          err |-> "nil"]

\* Whether a successful 200 fetch of u has been stored by CachePut.
Stored(u) ==
    \E f \in FIDs : /\ fetcher[f].exists
                    /\ fetcher[f].url = u
                    /\ fetcher[f].puts > 0
                    /\ fetcher[f].done > 0
                    /\ fetcher[f].err = "nil"

(***************************************************************************)
(* Client.Do                                                               *)
(***************************************************************************)

\* The callers are interchangeable goroutines and the URLs interchangeable
\* keys: the callers are numbered in the order in which they enter Do, and a
\* caller asks for a URL already asked for or for the first URL not yet
\* asked for.
Entered == {c \in Callers : pc[c] # "idle"}

Asked == {url[c] : c \in Entered}

FreshURL == IF "a" \in Asked THEN "b" ELSE "a"

\* Do up to the first select on c.shutdown, and urlstr := req.URL.String().
DoEnter(c, u) ==
    /\ pc[c] = "idle"
    /\ \A d \in Callers : d < c => d \in Entered
    /\ u \in Asked \cup {FreshURL}
    /\ url' = [url EXCEPT ![c] = u]
    /\ IF shutdown
       THEN /\ pc' = [pc EXCEPT ![c] = "returned"]
            /\ result' = [result EXCEPT ![c] = "Canceled"]
       ELSE /\ pc' = [pc EXCEPT ![c] = "checked"]
            /\ UNCHANGED result
    /\ UNCHANGED <<configVars, clientVars, fetcher, cf, frc, closeErr,
                   status, body, pcS, shutdownCtxDone, histVars>>

\* Mutant of Draining: Do does not check again under the mutex.
NeverDraining == FALSE

\* The select under c.mu in Do: c.shutdown is closed or c.ctx is done.
Draining == shutdown \/ ctxDone

\* Mutant of Lookup: the registry is not consulted.
LookupNothing(u) == NoF

\* f := c.fetchers[urlstr]
Lookup(u) == fetchers[u]

\* Mutant of Join: the request is not counted.
JoinUncounted(fr) == fr

\* f.reqs++ on the fetcher found in the registry.
Join(fr) == [fr EXCEPT !.reqs = @ + 1]

\* The section of Do under c.mu: the second check of shutdown and ctx, then
\* look up the fetcher of the URL, allocate it or count one more request.
DoRegister(c) ==
    /\ pc[c] = "checked"
    /\ IF Draining
       THEN /\ pc' = [pc EXCEPT ![c] = "returned"]
            /\ result' = [result EXCEPT ![c] = "Canceled"]
            /\ UNCHANGED <<fetchers, fetcher, cf, afterStore>>
       ELSE /\ pc' = [pc EXCEPT ![c] = "waiting"]
            /\ afterStore' = [afterStore EXCEPT ![c] = Stored(url[c])]
            /\ UNCHANGED result
            /\ IF Lookup(url[c]) = NoF
               THEN /\ fetcher' = [fetcher EXCEPT ![c] = NewFetcher(url[c])]
                    /\ fetchers' = [fetchers EXCEPT ![url[c]] = c]
                    /\ cf' = [cf EXCEPT ![c] = c]
               ELSE /\ fetcher' = [fetcher EXCEPT ![Lookup(url[c])] = Join(@)]
                    /\ cf' = [cf EXCEPT ![c] = Lookup(url[c])]
                    /\ UNCHANGED fetchers
    /\ UNCHANGED <<configVars, shutdown, shutdownDone, ctxDone, url, frc,
                   closeErr, status, body, pcS, shutdownCtxDone,
                   inFlightAtShutdown, underMu>>

\* The fetch has put bytes, or may have, into the BufferFile of the fetcher:
\* CacheGet found the body, or the transport answered and io.Copy began.
Written(fr) == fr.got = "hit" \/ fr.res # 0

\* The calls on the file system made by a section under c.mu that leaves the
\* state st: f.f.Close() in reqCleanupLocked closes and unlinks the spill
\* file of a BufferFile that has one, which sp tells.
LockedCalls(st, sp) ==
    IF sp /\ \E f \in FIDs : /\ st.fetcher[f].closed # fetcher[f].closed
                              /\ Written(fetcher[f])
    THEN {"Close"}
    ELSE {}

\* Mutant of Completed: Do does not wait for the fetch.
CompletedEarly(fr) == TRUE

\* <-f.done is ready: f.done is closed.
Completed(fr) == fr.done > 0

\* <-f.done, then f.response(req): with f.err set, release the request and
\* return the error; otherwise hand out a body over the BufferFile.
DoRespond(c) ==
    /\ pc[c] = "waiting"
    /\ Completed(fetcher[cf[c]])
    /\ pc' = [pc EXCEPT ![c] = "returned"]
    /\ IF fetcher[cf[c]].err # "nil"
       THEN LET r == reqCleanup(ClientState, cf[c])
            IN  /\ fetcher' = r.st.fetcher
                /\ fetchers' = r.st.fetchers
                /\ shutdownDone' = r.st.shutdownDone
                /\ result' = [result EXCEPT ![c] = fetcher[cf[c]].err]
                /\ \E sp \in BOOLEAN : underMu' = underMu \cup LockedCalls(r.st, sp)
                /\ UNCHANGED <<frc, status>>
       ELSE /\ result' = [result EXCEPT ![c] = "response"]
            /\ status' = [status EXCEPT ![c] = fetcher[cf[c]].res]
            /\ frc' = [frc EXCEPT ![c] = "open"]
            /\ UNCHANGED <<fetcher, fetchers, shutdownDone, underMu>>
    /\ UNCHANGED <<configVars, shutdown, ctxDone, url, cf, closeErr, body,
                   pcS, shutdownCtxDone, afterStore, inFlightAtShutdown>>

\* Mutant of HoldsFetcher: Close does not set frc.f to nil.
HoldsFetcherAlways(s) == s \in {"open", "closed"}

\* frc.f != nil, for a body in the state s.
HoldsFetcher(s) == s = "open"

\* fetchReadCloser.Close.  On a body whose frc.f is set it releases the
\* request and sets frc.f to nil, whatever reqCleanup returned; on a body
\* whose frc.f is nil, at the second Close and at every later one, it
\* returns nil.
BodyClose(c) ==
    /\ pc[c] = "returned"
    /\ frc[c] \in {"open", "closed", "reclosed"}
    /\ IF HoldsFetcher(frc[c])
       THEN LET r == reqCleanup(ClientState, cf[c])
            IN  /\ fetcher' = r.st.fetcher
                /\ fetchers' = r.st.fetchers
                /\ shutdownDone' = r.st.shutdownDone
                /\ closeErr' = [closeErr EXCEPT ![c] = r.err]
                /\ frc' = [frc EXCEPT ![c] = "closed"]
                /\ \E sp \in BOOLEAN : underMu' = underMu \cup LockedCalls(r.st, sp)
       ELSE /\ closeErr' = [closeErr EXCEPT ![c] = "nil"]
            /\ frc' = [frc EXCEPT ![c] = "reclosed"]
            /\ UNCHANGED <<fetcher, fetchers, shutdownDone, underMu>>
    /\ UNCHANGED <<configVars, shutdown, ctxDone, pc, url, cf, result,
                   status, body, pcS, shutdownCtxDone, afterStore,
                   inFlightAtShutdown>>

\* Reading a section of a BufferFile to its end: once the BufferFile is
\* closed every operation on it returns its sticky error, otherwise the
\* section [0, f.f.Len()) is delivered, from a position of the reader's own.
SectionRead(fr) == IF fr.closed > 0 THEN "AlreadyClosed" ELSE "complete"

\* The caller reads the body of its response to the end, before it closes
\* it: ioutil.ReadAll(res.Body).
ReadBody(c) ==
    /\ pc[c] = "returned"
    /\ frc[c] = "open"
    /\ body[c] = "none"
    /\ body' = [body EXCEPT ![c] = SectionRead(fetcher[cf[c]])]
    /\ UNCHANGED <<configVars, clientVars, fetcher, pc, url, cf, result, frc,
                   closeErr, status, pcS, shutdownCtxDone, histVars>>

(***************************************************************************)
(* The fetch goroutine of a fetcher                                        *)
(***************************************************************************)

\* Mutant of Finish: the path ends without close(f.done).
FinishSilently(fr) == [fr EXCEPT !.pcF = "done"]

\* close(f.done) at the end of a path of the fetch goroutine.
Finish(fr) == [fr EXCEPT !.done = Min(@ + 1, 2), !.pcF = "done"]

\* f.c.Client.Do(req) is entered, under the Client's root context.
CallTransport(fr) == [fr EXCEPT !.calls = Min(@ + 1, 2), !.pcF = "transport"]

\* Mutant of AfterCache: fetch does not return after a cache hit.
AfterCacheNoReturn(fr, o) ==
    CASE o = "err" -> Finish([fr EXCEPT !.got = o, !.err = "CacheGet"])
      [] o = "hit" -> CallTransport(Finish([fr EXCEPT !.got = o]))
      [] OTHER     -> CallTransport([fr EXCEPT !.got = o])

\* Mutant of AfterCache: without a cache there is nothing to fetch.
AfterCacheSkipsTransport(fr, o) ==
    CASE o = "err" -> Finish([fr EXCEPT !.got = o, !.err = "CacheGet"])
      [] o = "miss" -> CallTransport([fr EXCEPT !.got = o])
      [] OTHER     -> Finish([fr EXCEPT !.got = o])

\* Mutant of AfterCache: the error of CacheGet is not recorded in f.err.
AfterCacheDropsError(fr, o) ==
    CASE o = "err" -> Finish([fr EXCEPT !.got = o])
      [] o = "hit" -> Finish([fr EXCEPT !.got = o])
      [] OTHER     -> CallTransport([fr EXCEPT !.got = o])

\* What fetch does after fetchFromCache has returned having found `o`: a hit
\* or an error closed f.done and fetch returns, otherwise the transport is
\* called.
AfterCache(fr, o) ==
    CASE o = "err" -> Finish([fr EXCEPT !.got = o, !.err = "CacheGet"])
      [] o = "hit" -> Finish([fr EXCEPT !.got = o])
      [] OTHER     -> CallTransport([fr EXCEPT !.got = o])

\* fetchFromCache and the select on f.done that follows it.  The outcome of
\* the CacheGet callback is the cache's choice.
FetchFromCache(f) ==
    /\ fetcher[f].pcF = "start"
    /\ IF ~CacheGet
       THEN fetcher' = [fetcher EXCEPT ![f] = AfterCache(@, "unset")]
       ELSE \E o \in {"hit", "miss", "err"} :
                fetcher' = [fetcher EXCEPT
                               ![f] = AfterCache([@ EXCEPT !.gets = Min(@ + 1, 2)], o)]
    /\ UNCHANGED <<configVars, clientVars, callerVars, pcS, shutdownCtxDone, histVars>>

\* f.res, f.err = f.c.Client.Do(req) returns.  A request whose context is
\* cancelled fails with Canceled; otherwise the server's answer or a
\* transport error.  With an error there is nothing to copy or to store and
\* f.done is closed.
TransportReturn(f) ==
    /\ fetcher[f].pcF = "transport"
    /\ IF ctxDone
       THEN fetcher' = [fetcher EXCEPT ![f] = Finish([@ EXCEPT !.err = "Canceled"])]
       ELSE \/ fetcher' = [fetcher EXCEPT ![f] = Finish([@ EXCEPT !.err = "Transport"])]
            \/ \E s \in Statuses :
                   fetcher' = [fetcher EXCEPT ![f] = [@ EXCEPT !.res = s, !.pcF = "copy"]]
    /\ UNCHANGED <<configVars, clientVars, callerVars, pcS, shutdownCtxDone, histVars>>

\* The errors io.Copy(f.f, f.res.Body) and f.res.Body.Close() can end with:
\* a write to a BufferFile that was closed fails, a read of a body whose
\* context is cancelled fails unless the body had arrived already.
CopyErrors(fr) ==
    (IF fr.closed > 0 THEN {"Closed"} ELSE {})
        \cup (IF ctxDone THEN {"Canceled", "nil"} ELSE {"Transport", "nil"})

\* Mutant of AfterCopy: the status of the response is not looked at.
AfterCopyAnyStatus(fr, e) ==
    IF e = "nil" /\ CachePut
    THEN [fr EXCEPT !.err = e, !.pcF = "put"]
    ELSE Finish([fr EXCEPT !.err = e])

\* Mutant of AfterCopy: f.done is closed before CachePut is called.
AfterCopyReleasesEarly(fr, e) ==
    IF e = "nil" /\ fr.res = 200 /\ CachePut
    THEN [Finish(fr) EXCEPT !.err = e, !.pcF = "put"]
    ELSE Finish([fr EXCEPT !.err = e])

\* After the copy: saveToCache runs when f.err == nil and the status is 200,
\* and calls CachePut when it is set; then f.done is closed.
AfterCopy(fr, e) ==
    IF e = "nil" /\ fr.res = 200 /\ CachePut
    THEN [fr EXCEPT !.err = e, !.pcF = "put"]
    ELSE Finish([fr EXCEPT !.err = e])

\* io.Copy of the body into the BufferFile, Body.Close, the log record.
CopyBody(f) ==
    /\ fetcher[f].pcF = "copy"
    /\ \E e \in CopyErrors(fetcher[f]) :
           fetcher' = [fetcher EXCEPT ![f] = AfterCopy(@, e)]
    /\ UNCHANGED <<configVars, clientVars, callerVars, pcS, shutdownCtxDone, histVars>>

\* saveToCache: f.err = CachePut(...), then close(f.done).
SaveToCache(f) ==
    /\ fetcher[f].pcF = "put"
    /\ \E e \in {"nil", "CachePut"} :
           fetcher' = [fetcher EXCEPT
                          ![f] = Finish([@ EXCEPT !.err = e, !.puts = Min(@ + 1, 2)])]
    /\ UNCHANGED <<configVars, clientVars, callerVars, pcS, shutdownCtxDone, histVars>>

(***************************************************************************)
(* Client.Shutdown(ctx)                                                    *)
(***************************************************************************)

\* close(c.shutdown) and, with an empty registry, close(c.shutdownDone).
ShutdownBegin ==
    /\ pcS = "idle"
    /\ pcS' = "wait"
    /\ shutdown' = TRUE
    /\ shutdownDone' = IF Registered(fetchers) = {}
                       THEN Min(shutdownDone + 1, 2)
                       ELSE shutdownDone
    /\ inFlightAtShutdown' = (Registered(fetchers) # {})
    /\ UNCHANGED <<configVars, fetchers, ctxDone, fetcher, callerVars,
                   shutdownCtxDone, afterStore, underMu>>

\* The owner of the ctx given to Shutdown cancels it.  The code reads that
\* ctx only in the first select of Shutdown.
CancelShutdownCtx ==
    /\ pcS = "wait"
    /\ ~shutdownCtxDone
    /\ shutdownCtxDone' = TRUE
    /\ UNCHANGED <<configVars, clientVars, fetcher, callerVars, pcS, histVars>>

\* Mutant of WaitReady: Shutdown does not wait.
WaitSkipped == TRUE

\* select { case <-ctx.Done(): case <-c.shutdownDone: } has a ready case.
WaitReady == shutdownCtxDone \/ shutdownDone > 0

\* The first select of Shutdown.
ShutdownWait ==
    /\ pcS = "wait"
    /\ WaitReady
    /\ pcS' = "cancel"
    /\ UNCHANGED <<configVars, clientVars, fetcher, callerVars, shutdownCtxDone,
                   histVars>>

\* Mutant of CancelFn: the root context is left alone.
CancelFnForgotten == ctxDone

\* c.cancelFn(): the root context is done.
CancelFn == TRUE

\* c.cancelFn() under c.mu.
ShutdownCancel ==
    /\ pcS = "cancel"
    /\ pcS' = "grace"
    /\ ctxDone' = CancelFn
    /\ fetcher' = [f \in FIDs |->
                      [fetcher[f] EXCEPT !.atRootCancel = (fetcher[f].pcF = "transport")]]
    /\ UNCHANGED <<configVars, fetchers, shutdown, shutdownDone,
                   callerVars, shutdownCtxDone, histVars>>

\* The grace select: c.shutdownDone is closed, Shutdown returns.
ShutdownGraceDone ==
    /\ pcS = "grace"
    /\ shutdownDone > 0
    /\ pcS' = "returned"
    /\ UNCHANGED <<configVars, clientVars, fetcher, callerVars, shutdownCtxDone,
                   histVars>>

\* The grace select: the 10 ms timer fires first.
ShutdownGraceTimeout ==
    /\ pcS = "grace"
    /\ shutdownDone = 0
    /\ pcS' = "force"
    /\ UNCHANGED <<configVars, clientVars, fetcher, callerVars, shutdownCtxDone,
                   histVars>>

\* Mutant of ForceClose: f.reqs is not set to 0.
RECURSIVE ForceCloseKeepsReqs(_, _)
ForceCloseKeepsReqs(st, S) ==
    IF S = {}
    THEN st
    ELSE LET u == CHOOSE x \in S : TRUE
         IN  ForceCloseKeepsReqs(reqCleanupLocked(st, st.fetchers[u]), S \ {u})

\* The body of the force loop for the fetchers registered under the URLs S:
\* f.reqs = 0; f.reqCleanupLocked().
RECURSIVE ForceClose(_, _)
ForceClose(st, S) ==
    IF S = {}
    THEN st
    ELSE LET u == CHOOSE x \in S : TRUE
             f == st.fetchers[u]
         IN  ForceClose(
                 reqCleanupLocked(
                     [st EXCEPT !.fetcher = [st.fetcher EXCEPT ![f].reqs = 0]], f),
                 S \ {u})

\* The log records of the force loop, one per fetcher in c.fetchers, written
\* when c.Logf is set, which lg tells.
ForceLog(lg) == IF lg /\ Registered(fetchers) # {} THEN {"Logf"} ELSE {}

\* The force loop over c.fetchers, under c.mu.
ShutdownForce ==
    /\ pcS = "force"
    /\ pcS' = "final"
    /\ LET st == ForceClose(ClientState, Registered(fetchers))
       IN  /\ fetcher' = st.fetcher
           /\ fetchers' = st.fetchers
           /\ shutdownDone' = st.shutdownDone
           /\ \E lg, sp \in BOOLEAN :
                  underMu' = underMu \cup ForceLog(lg) \cup LockedCalls(st, sp)
    /\ UNCHANGED <<configVars, shutdown, ctxDone, callerVars, shutdownCtxDone,
                   afterStore, inFlightAtShutdown>>

\* The last <-c.shutdownDone; Shutdown returns.
ShutdownFinal ==
    /\ pcS = "final"
    /\ shutdownDone > 0
    /\ pcS' = "returned"
    /\ UNCHANGED <<configVars, clientVars, fetcher, callerVars, shutdownCtxDone,
                   histVars>>

ShutdownStep ==
    \/ ShutdownWait
    \/ ShutdownCancel
    \/ ShutdownGraceDone
    \/ ShutdownGraceTimeout
    \/ ShutdownForce
    \/ ShutdownFinal

Next ==
    \/ \E c \in Callers, u \in URLs : DoEnter(c, u)
    \/ \E c \in Callers : DoRegister(c)
    \/ \E c \in Callers : DoRespond(c)
    \/ \E c \in Callers : ReadBody(c)
    \/ \E c \in Callers : BodyClose(c)
    \/ \E f \in FIDs : FetchFromCache(f)
    \/ \E f \in FIDs : TransportReturn(f)
    \/ \E f \in FIDs : CopyBody(f)
    \/ \E f \in FIDs : SaveToCache(f)
    \/ ShutdownBegin
    \/ CancelShutdownCtx
    \/ ShutdownStep

Spec == Init /\ [][Next]_vars

\* Shutdown's goroutine runs, and its timer fires.  Nothing is assumed of
\* the callers, the transport or the cache.
FairSpec == Spec /\ WF_vars(ShutdownStep)

\* A step of a fetch goroutine: a cache callback or the transport returns,
\* or the copy of the body ends.
FetchStep ==
    \E f \in FIDs :
        FetchFromCache(f) \/ TransportReturn(f) \/ CopyBody(f) \/ SaveToCache(f)

\* The cache callbacks and the transport return and the fetch goroutines
\* run; a caller whose <-f.done is ready runs.
FairFetchSpec ==
    Spec /\ WF_vars(FetchStep) /\ WF_vars(\E c \in Callers : DoRespond(c))

(***************************************************************************)
(* Vocabulary of the properties                                            *)
(***************************************************************************)

\* The caller's Do has registered with a fetcher and has not finished: it
\* waits for f.done, or holds a response body it has not closed.
Outstanding(c) == cf[c] # NoF /\ (pc[c] = "waiting" \/ frc[c] = "open")

\* The outstanding callers of fetcher f.
Waiters(f) == {c \in Callers : cf[c] = f /\ Outstanding(c)}

\* The fetchers allocated so far.
Allocated == {f \in FIDs : fetcher[f].exists}

\* The fetchers of URL u whose fetch has not signalled completion.
Fetching(u) == {f \in Allocated : fetcher[f].url = u /\ fetcher[f].done = 0}

\* A forced shutdown is the only way a fetcher's BufferFile is closed while a
\* caller is still outstanding on it.
Reaped(f) == fetcher[f].closed > 0

(***************************************************************************)
(* C1  Single-flight.  At any time at most one fetch per URL has not yet   *)
(* signalled completion, so all the callers of Do(U) that wait on a fetch  *)
(* in progress wait on the same fetcher; and a fetcher whose CacheGet is   *)
(* unset or reported a miss has invoked the transport exactly once,        *)
(* neither zero times nor twice.                                           *)
(***************************************************************************)
SingleFlight ==
    /\ \A u \in URLs : Cardinality(Fetching(u)) <= 1
    /\ \A c, d \in Callers :
           (/\ pc[c] = "waiting" /\ pc[d] = "waiting" /\ url[c] = url[d]
            /\ fetcher[cf[c]].done = 0 /\ fetcher[cf[d]].done = 0)
               => cf[c] = cf[d]
    /\ \A f \in Allocated :
           /\ fetcher[f].calls <= 1
           /\ fetcher[f].got \in {"unset", "miss"} => fetcher[f].calls = 1

\* Two callers wait on one fetcher that is blocked in its only transport call.
SingleFlightWitness ==
    \E c, d \in Callers :
        /\ c # d
        /\ pc[c] = "waiting" /\ pc[d] = "waiting"
        /\ cf[c] = cf[d]
        /\ fetcher[cf[c]].pcF = "transport"
        /\ fetcher[cf[c]].calls = 1

(***************************************************************************)
(* C2  Registry invariant.  As stated: the registry holds an entry for U   *)
(* exactly when some caller of Do(U) is outstanding, and its size is the   *)
(* number of distinct URLs with an outstanding caller.                     *)
(***************************************************************************)
RegistryIffOutstanding ==
    /\ \A u \in URLs :
           fetchers[u] # NoF <=> \E c \in Callers : Outstanding(c) /\ url[c] = u
    /\ Cardinality(Registered(fetchers))
           = Cardinality({url[c] : c \in {x \in Callers : Outstanding(x)}})

\* The outstanding callers whose fetcher was not reaped by a forced shutdown.
Live == {c \in Callers : Outstanding(c) /\ ~Reaped(cf[c])}

(***************************************************************************)
(* C2, amended.  The registry holds an entry for U exactly when some       *)
(* caller of Do(U) is outstanding on a fetcher that a forced shutdown has  *)
(* not reaped; that entry is the fetcher of every such caller (one fetcher *)
(* per URL), and the size of the registry is the number of distinct URLs   *)
(* of these callers.                                                       *)
(***************************************************************************)
RegistryInvariant ==
    /\ \A c \in Live : fetchers[url[c]] = cf[c]
    /\ \A u \in URLs :
           fetchers[u] # NoF =>
               /\ fetcher[fetchers[u]].exists
               /\ fetcher[fetchers[u]].url = u
               /\ \E c \in Live : cf[c] = fetchers[u]
    /\ Cardinality(Registered(fetchers)) = Cardinality({url[c] : c \in Live})

\* Both URLs are registered, each with its own outstanding caller.
RegistryWitness ==
    /\ Registered(fetchers) = URLs
    /\ \A u \in URLs : \E c \in Live : url[c] = u

(***************************************************************************)
(* C3  Reference count.  As stated: every fetcher's reqs is the number of  *)
(* callers that registered with it and have not finished.                  *)
(***************************************************************************)
ReqsCountsOutstanding ==
    \A f \in Allocated : fetcher[f].reqs = Cardinality(Waiters(f))

(***************************************************************************)
(* C3, amended.  The reqs of every fetcher that is in the registry is the  *)
(* number of callers that registered with it and have not finished, and is *)
(* at least 1; a fetcher that left the registry has reqs 0.                *)
(***************************************************************************)
ReqsInvariant ==
    \A f \in Allocated :
        IF fetchers[fetcher[f].url] = f
        THEN fetcher[f].reqs = Cardinality(Waiters(f)) /\ fetcher[f].reqs >= 1
        ELSE fetcher[f].reqs = 0

\* A registered fetcher counts two requests, one waiting for f.done that
\* joined after the other got its response.
ReqsWitness ==
    \E f \in Allocated :
        /\ fetchers[fetcher[f].url] = f
        /\ fetcher[f].reqs = 2
        /\ \E c, d \in Waiters(f) : pc[c] = "waiting" /\ frc[d] = "open"

(***************************************************************************)
(* C4  Shutdown graceful.  As long as the ctx given to Shutdown is not     *)
(* cancelled: the root context is cancelled, and Shutdown returns, only    *)
(* when the registry is empty and no caller is outstanding; the force loop *)
(* is not reached; no BufferFile is closed under an outstanding caller;    *)
(* and no Do that registered ends with Canceled or with a closed buffer.   *)
(***************************************************************************)
GracefulShutdown ==
    ~shutdownCtxDone =>
        /\ (ctxDone \/ pcS = "returned") =>
               /\ Registered(fetchers) = {}
               /\ \A c \in Callers : ~Outstanding(c)
        /\ pcS \notin {"force", "final"}
        /\ \A c \in Callers : Outstanding(c) => ~Reaped(cf[c])
        /\ \A f \in Allocated : fetcher[f].err \notin {"Canceled", "Closed"}
        /\ \A c \in Callers : cf[c] # NoF => result[c] \notin {"Canceled", "Closed"}

\* Shutdown began with a Do in flight, its ctx was never cancelled, and it
\* has returned: every Do that registered got a response and closed it.
GracefulShutdownWitness ==
    /\ inFlightAtShutdown
    /\ ~shutdownCtxDone
    /\ pcS = "returned"
    /\ \E c \in Callers : cf[c] # NoF
    /\ \A c \in Callers : cf[c] # NoF => result[c] = "response" /\ frc[c] = "closed"

\* Shutdown returns once its ctx is cancelled.
ShutdownReturns == shutdownCtxDone ~> (pcS = "returned")

(***************************************************************************)
(* C5  Shutdown forced.  As stated: whenever the ctx given to Shutdown is   *)
(* cancelled and a Do is blocked in the transport, that Do, when it        *)
(* returns, returns Canceled.                                              *)
(***************************************************************************)
CanceledIfBlockedAtCtxCancel ==
    \A c \in Callers :
        []((shutdownCtxDone /\ pc[c] = "waiting" /\ fetcher[cf[c]].pcF = "transport")
               => [](pc[c] = "returned" => result[c] = "Canceled"))

(***************************************************************************)
(* C5, amended.  A Do that is still blocked in the transport when Shutdown *)
(* cancels the root context, after the ctx given to Shutdown was           *)
(* cancelled, returns Canceled and no response; and Shutdown returns.      *)
(***************************************************************************)
ForcedShutdown ==
    /\ [](\A c \in Callers :
              (cf[c] # NoF /\ fetcher[cf[c]].atRootCancel /\ pc[c] = "returned")
                  => result[c] = "Canceled" /\ frc[c] = "none")
    /\ ShutdownReturns

\* The ctx of Shutdown was cancelled, the root context was cancelled while
\* the Do was blocked in the transport, the Do has returned Canceled and
\* Shutdown has returned.
ForcedShutdownWitness ==
    \E c \in Callers :
        /\ shutdownCtxDone
        /\ cf[c] # NoF
        /\ fetcher[cf[c]].atRootCancel
        /\ pc[c] = "returned"
        /\ result[c] = "Canceled"
        /\ pcS = "returned"

(***************************************************************************)
(* C6  Shutdown termination.  Once its ctx is cancelled Shutdown returns,  *)
(* whether or not the callers close their bodies; and when it has          *)
(* returned the registry is empty and every fetcher has reqs 0 and a       *)
(* closed BufferFile.                                                      *)
(***************************************************************************)
ShutdownTerminates ==
    /\ ShutdownReturns
    /\ [](pcS = "returned" =>
              /\ Registered(fetchers) = {}
              /\ \A f \in Allocated : fetcher[f].reqs = 0 /\ fetcher[f].closed > 0)

\* Shutdown has returned after its ctx was cancelled while a caller holds a
\* body it never closed: its fetcher was reaped.
ShutdownTerminatesWitness ==
    /\ pcS = "returned"
    /\ shutdownCtxDone
    /\ \E c \in Callers :
           /\ frc[c] = "open"
           /\ fetcher[cf[c]].reqs = 0
           /\ Reaped(cf[c])
           /\ fetchers[url[c]] = NoF

(***************************************************************************)
(* C7  Close of a stale body.  A Close of a body whose fetcher a forced    *)
(* shutdown has reaped returns Canceled and changes neither a fetcher      *)
(* (reqs, BufferFile) nor the registry nor shutdownDone.                   *)
(***************************************************************************)
StaleCloseCanceled ==
    [][\A c \in Callers :
           (frc[c] = "open" /\ Reaped(cf[c]) /\ frc'[c] # "open")
               => /\ closeErr'[c] = "Canceled"
                  /\ fetcher' = fetcher
                  /\ fetchers' = fetchers
                  /\ shutdownDone' = shutdownDone]_vars

\* A body was closed after the forced shutdown and Close returned Canceled.
StaleCloseWitness ==
    \E c \in Callers :
        /\ frc[c] = "closed"
        /\ closeErr[c] = "Canceled"
        /\ fetcher[cf[c]].reqs = 0
        /\ fetcher[cf[c]].closed = 1
        /\ shutdownDone = 1

(***************************************************************************)
(* C8  Draining refuses new work.  Once c.shutdown is closed, a Do that    *)
(* has not registered can only return Canceled, and that step changes no   *)
(* fetcher (so allocates none, counts no request, starts no fetch) and no  *)
(* registry entry; and once shutdownDone is closed the registry is empty   *)
(* for good.                                                               *)
(***************************************************************************)
DrainingRefuses ==
    /\ [][\A c \in Callers :
              (shutdown /\ pc[c] \in {"idle", "checked"} /\ pc'[c] # pc[c])
                  => /\ pc'[c] = "returned"
                     /\ result'[c] = "Canceled"
                     /\ cf'[c] = NoF
                     /\ fetcher' = fetcher
                     /\ fetchers' = fetchers]_vars
    /\ [](shutdownDone > 0 => Registered(fetchers) = {})

\* While Shutdown drains a Do in flight, another Do was refused.
DrainingRefusesWitness ==
    /\ shutdown
    /\ \E c, d \in Callers :
           /\ pc[c] = "returned" /\ result[c] = "Canceled" /\ cf[c] = NoF
           /\ Outstanding(d)

(***************************************************************************)
(* C9  Cache coverage.  As stated: a Do(U) that is admitted after a 200    *)
(* fetch of U was stored by CachePut calls CacheGet(U), i.e. starts a      *)
(* fetch of its own, whose first step is CacheGet, and given a hit that    *)
(* fetch does not invoke the transport.                                    *)
(***************************************************************************)
NextDoCallsCacheGet ==
    \A c \in Callers :
        (CacheGet /\ afterStore[c] /\ pc[c] = "returned")
            => /\ cf[c] = c
               /\ fetcher[c].gets = 1
               /\ fetcher[c].got = "hit" => fetcher[c].calls = 0

(***************************************************************************)
(* C9, amended.  A Do(U) that is admitted after a 200 fetch of U was       *)
(* stored by CachePut either joins the fetcher still registered for U      *)
(* (a caller of it is still outstanding) and starts no fetch of its own,   *)
(* or allocates a fetcher; the fetch of its fetcher calls CacheGet(U)      *)
(* once, before anything else, and given a hit never invokes the           *)
(* transport.                                                              *)
(***************************************************************************)
CacheCoverage ==
    \A c \in Callers :
        (CacheGet /\ afterStore[c]) =>
            LET fr == fetcher[cf[c]]
            IN  /\ fr.exists /\ fr.url = url[c]
                /\ fr.gets = (IF fr.pcF = "start" THEN 0 ELSE 1)
                /\ fr.pcF = "start" => fr.calls = 0 /\ fr.done = 0
                /\ fr.got = "hit" => fr.calls = 0 /\ fr.puts = 0 /\ fr.res = 0
                /\ cf[c] # c => fetcher[c] = NoFetcher

\* After a stored fetch of its URL a Do allocated a fetcher, CacheGet
\* reported a hit and the Do returned a response without a transport call.
CacheCoverageWitness ==
    \E c \in Callers :
        /\ CacheGet /\ afterStore[c]
        /\ cf[c] = c
        /\ fetcher[c].got = "hit"
        /\ fetcher[c].calls = 0
        /\ result[c] = "response"

\* The number of transport invocations of the fetchers in S.
RECURSIVE TransportCalls(_)
TransportCalls(S) ==
    IF S = {}
    THEN 0
    ELSE LET f == CHOOSE x \in S : TRUE
         IN  fetcher[f].calls + TransportCalls(S \ {f})

\* The callers whose Do was admitted.
Admitted == {c \in Callers : cf[c] # NoF}

\* Every fetch has left fetchFromCache.
AllFetching == \A f \in Allocated : fetcher[f].pcF # "start"

(***************************************************************************)
(* C10  No-cache path.  As stated: with CacheGet and CachePut unset the    *)
(* number of transport invocations is the number of admitted Do calls      *)
(* (once every fetch started has reached the transport).                   *)
(***************************************************************************)
TransportPerDo ==
    (~CacheGet /\ ~CachePut /\ AllFetching)
        => TransportCalls(Allocated) = Cardinality(Admitted)

(***************************************************************************)
(* C10, amended.  With CacheGet and CachePut unset every fetch invokes the *)
(* transport exactly once and no cache callback, so the number of          *)
(* transport invocations is the number of fetchers allocated; it is the    *)
(* number of admitted Do calls when no Do joined a fetcher already         *)
(* registered for its URL, and smaller otherwise.                          *)
(***************************************************************************)
NoCachePath ==
    (~CacheGet /\ ~CachePut) =>
        /\ \A f \in Allocated :
               /\ fetcher[f].gets = 0 /\ fetcher[f].puts = 0
               /\ fetcher[f].calls = (IF fetcher[f].pcF = "start" THEN 0 ELSE 1)
        /\ \A c \in Admitted : fetcher[cf[c]].exists
        /\ AllFetching =>
               /\ TransportCalls(Allocated) = Cardinality(Allocated)
               /\ TransportCalls(Allocated) <= Cardinality(Admitted)
               /\ (\A c \in Admitted : cf[c] = c)
                      <=> TransportCalls(Allocated) = Cardinality(Admitted)

\* Without a cache two Do calls for one URL, one after the other, each
\* invoked the transport.
NoCachePathWitness ==
    /\ ~CacheGet /\ ~CachePut
    /\ \E c, d \in Callers :
           /\ c # d /\ url[c] = url[d]
           /\ cf[c] = c /\ cf[d] = d
           /\ fetcher[c].calls = 1 /\ fetcher[d].calls = 1
           /\ result[c] = "response" /\ result[d] = "response"

(***************************************************************************)
(* The Filer                                                               *)
(*                                                                         *)
(* Open, OpenFile and TempFile send on f.limiter (the send blocks while    *)
(* the channel is full), call the operating system and return; File.Close  *)
(* receives from f.limiter.  The operating system's answers are its own    *)
(* choice.                                                                 *)
(***************************************************************************)

\* The variables of the Client and of the BufferFile, which the Filer's
\* operations leave alone.
webVars == <<CacheGet, CachePut, clientVars, fetcher, callerVars, pcS,
             shutdownCtxDone, histVars, bufferVars>>

FilerInit ==
    /\ CacheGet = FALSE
    /\ CachePut = FALSE
    /\ ClientFresh
    /\ FilerFresh
    /\ BufferNew(1)
    /\ TesterIdle

OpenOps == {"Open", "OpenFile", "TempFile"}

\* A goroutine calls Open, OpenFile or TempFile.  The goroutines are
\* interchangeable: they are numbered in the order of their calls.
FilerCall(p, op) ==
    /\ ~panicked
    /\ fpc[p] = "idle"
    /\ \A q \in Procs : q < p => fpc[q] # "idle"
    /\ fpc' = [fpc EXCEPT ![p] = "acquire"]
    /\ fop' = [fop EXCEPT ![p] = op]
    /\ UNCHANGED <<webVars, limiter, draining, file, ferr, cerr,
                   fpcS, filerCtxDone, shutdownErr, panicked>>

\* Mutant of Admits: the limiter has no capacity.
AdmitsAlways(l) == TRUE

\* f.limiter <- struct{}{} can proceed: the channel is not full.
Admits(l) == l < fdLimit

\* f.limiter <- struct{}{}
FilerAcquire(p) ==
    /\ ~panicked
    /\ fpc[p] = "acquire"
    /\ Admits(limiter)
    /\ limiter' = limiter + 1
    /\ fpc' = [fpc EXCEPT ![p] = "opening"]
    /\ UNCHANGED <<webVars, draining, fop, file, ferr, cerr,
                   fpcS, filerCtxDone, shutdownErr, panicked>>

\* How the operating system answers: os.Open and os.OpenFile succeed or
\* fail; the loop of TempFile ends with a file, with an error that is not a
\* name collision, or with the collision of its 1000th name.
OsOutcomes(op) ==
    IF op = "TempFile" THEN {"ok", "err", "exhausted"} ELSE {"ok", "err"}

\* The limiter when the call returns: Open and OpenFile receive from
\* f.limiter before they return an error, TempFile returns its error as it
\* is.
AfterOpen(op, o, l) ==
    IF o # "ok" /\ op \in {"Open", "OpenFile"} THEN l - 1 ELSE l

\* f.wrap(osfile), and file.isTemp = true in TempFile.
Wrap(op) == [NoFile EXCEPT !.os = "open", !.isTemp = (op = "TempFile")]

\* The call of the operating system and the return of Open, OpenFile or
\* TempFile.
FilerOsOpen(p) ==
    /\ ~panicked
    /\ fpc[p] = "opening"
    /\ \E o \in OsOutcomes(fop[p]) :
           /\ limiter' = AfterOpen(fop[p], o, limiter)
           /\ IF o = "ok"
              THEN /\ file' = [file EXCEPT ![p] = Wrap(fop[p])]
                   /\ ferr' = [ferr EXCEPT ![p] = "nil"]
                   /\ fpc' = [fpc EXCEPT ![p] = "held"]
              ELSE /\ ferr' = [ferr EXCEPT ![p] = IF o = "err" THEN "IO" ELSE "Exist"]
                   /\ fpc' = [fpc EXCEPT ![p] = "failed"]
                   /\ UNCHANGED file
    /\ UNCHANGED <<webVars, draining, fop, cerr, fpcS, filerCtxDone,
                   shutdownErr, panicked>>

\* Mutant of Close: no test of file.File.
CloseUnchecked(fl, l, e) ==
    [file |-> [fl EXCEPT !.os = "nil",
                         !.unlinks = IF fl.isTemp THEN Min(@ + 1, 2) ELSE @],
     limiter |-> l - 1,
     err |-> e]

\* File.Close on a File whose os file is or was set: what it leaves of the
\* File and of the limiter, and the error it returns; e is the error of
\* closing and removing the os file.
Close(fl, l, e) ==
    IF fl.os # "open"
    THEN [file |-> fl, limiter |-> l, err |-> "ErrClosed"]
    ELSE [file |-> [fl EXCEPT !.os = "nil",
                              !.unlinks = IF fl.isTemp THEN Min(@ + 1, 2) ELSE @],
          limiter |-> l - 1,
          err |-> e]

\* The owner of a File closes it, a first and a second time.
FileClose(p) ==
    /\ ~panicked
    /\ fpc[p] \in {"held", "closed"}
    /\ file[p].os = "open" => limiter > 0   \* <-file.filer.limiter
    /\ \E e \in {"nil", "IO"} :
           LET r == Close(file[p], limiter, e)
           IN  /\ file' = [file EXCEPT ![p] = r.file]
               /\ limiter' = r.limiter
               /\ cerr' = [cerr EXCEPT ![p] = r.err]
    /\ fpc' = [fpc EXCEPT ![p] = IF fpc[p] = "held" THEN "closed" ELSE "reclosed"]
    /\ UNCHANGED <<webVars, draining, fop, ferr, fpcS, filerCtxDone,
                   shutdownErr, panicked>>

\* var f *File; f.Close(): the test of file.File dereferences the nil
\* pointer and the goroutine panics.
NilClose(p) ==
    /\ ~panicked
    /\ fpc[p] = "idle"
    /\ \A q \in Procs : q < p => fpc[q] # "idle"
    /\ fpc' = [fpc EXCEPT ![p] = "nilclose"]
    /\ cerr' = [cerr EXCEPT ![p] = "panic"]
    /\ panicked' = TRUE
    /\ UNCHANGED <<webVars, limiter, draining, fop, file, ferr,
                   fpcS, filerCtxDone, shutdownErr>>

\* (&File{}).Close(): file.File is nil.
ZeroClose(p) ==
    /\ ~panicked
    /\ fpc[p] = "idle"
    /\ \A q \in Procs : q < p => fpc[q] # "idle"
    /\ LET r == Close([NoFile EXCEPT !.os = "nil"], limiter, "nil")
       IN  /\ cerr' = [cerr EXCEPT ![p] = r.err]
           /\ limiter' = r.limiter
           /\ file' = [file EXCEPT ![p] = r.file]
    /\ fpc' = [fpc EXCEPT ![p] = "zeroclose"]
    /\ UNCHANGED <<webVars, draining, fop, ferr, fpcS, filerCtxDone,
                   shutdownErr, panicked>>

(***************************************************************************)
(* Filer.Shutdown(ctx)                                                     *)
(***************************************************************************)

\* The Files that are open.
LiveHandles == {p \in Procs : file[p].os = "open"}

\* Shutdown begins: the Filer is draining.
FilerShutdownBegin ==
    /\ ~panicked
    /\ fpcS = "idle"
    /\ fpcS' = "wait"
    /\ draining' = TRUE
    /\ UNCHANGED <<webVars, limiter, fpc, fop, file, ferr, cerr,
                   filerCtxDone, shutdownErr, panicked>>

\* The owner of the ctx given to Shutdown cancels it.
CancelFilerCtx ==
    /\ ~panicked
    /\ fpcS = "wait"
    /\ ~filerCtxDone
    /\ filerCtxDone' = TRUE
    /\ UNCHANGED <<webVars, limiter, draining, fpc, fop, file, ferr, cerr,
                   fpcS, shutdownErr, panicked>>

\* All handles are closed: Shutdown returns success.
FilerShutdownClean ==
    /\ ~panicked
    /\ fpcS = "wait"
    /\ LiveHandles = {}
    /\ fpcS' = "returned"
    /\ shutdownErr' = "nil"
    /\ UNCHANGED <<webVars, limiter, draining, fpc, fop, file, ferr, cerr,
                   filerCtxDone, panicked>>

\* Closing the Files of the goroutines S, one after the other.
RECURSIVE ForceCloseFiles(_, _)
ForceCloseFiles(st, S) ==
    IF S = {}
    THEN st
    ELSE LET p == CHOOSE x \in S : TRUE
             r == Close(st.file[p], st.limiter, "nil")
         IN  ForceCloseFiles(
                 [file |-> [st.file EXCEPT ![p] = [r.file EXCEPT !.forced = TRUE]],
                  limiter |-> r.limiter],
                 S \ {p})

\* The ctx is cancelled: Shutdown closes every File still open and returns
\* Canceled.
FilerShutdownForced ==
    /\ ~panicked
    /\ fpcS = "wait"
    /\ filerCtxDone
    /\ LET st == ForceCloseFiles([file |-> file, limiter |-> limiter], LiveHandles)
       IN  /\ file' = st.file
           /\ limiter' = st.limiter
    /\ fpcS' = "returned"
    /\ shutdownErr' = "Canceled"
    /\ UNCHANGED <<webVars, draining, fpc, fop, ferr, cerr, filerCtxDone, panicked>>

FilerNext ==
    \/ \E p \in Procs, op \in OpenOps : FilerCall(p, op)
    \/ \E p \in Procs : FilerAcquire(p)
    \/ \E p \in Procs : FilerOsOpen(p)
    \/ \E p \in Procs : FileClose(p)
    \/ \E p \in Procs : NilClose(p)
    \/ \E p \in Procs : ZeroClose(p)
    \/ FilerShutdownBegin
    \/ CancelFilerCtx
    \/ FilerShutdownClean
    \/ FilerShutdownForced

FilerSpec == FilerInit /\ [][FilerNext]_vars

\* A send on a channel that is not full completes.
FairFilerSpec == FilerSpec /\ WF_vars(\E p \in Procs : FilerAcquire(p))

(***************************************************************************)
(* C11  Error non-caching.  CachePut is invoked only by a fetch whose      *)
(* single transport call returned without error with status 200 and whose  *)
(* body was copied and closed without error; a fetch that failed or got    *)
(* another status never invokes it.  The waiters of a fetch with another   *)
(* status still get the response, with that status and a body.  A fetcher  *)
(* allocated for the URL after such a fetch is gone invokes the transport  *)
(* again, as nothing was stored that CacheGet could find.                  *)
(***************************************************************************)
ErrorNonCaching ==
    /\ \A f \in Allocated :
           LET fr == fetcher[f]
           IN  /\ (fr.pcF = "put" \/ fr.puts > 0)
                      => /\ CachePut
                         /\ fr.calls = 1 /\ fr.res = 200
                         /\ fr.got \in {"unset", "miss"}
                         /\ fr.err \in {"nil", "CachePut"}
                         /\ fr.puts <= 1
               /\ fr.pcF = "put" => fr.err = "nil" /\ fr.puts = 0
               /\ (fr.res # 200 \/ fr.err \in {"Transport", "Canceled", "Closed", "CacheGet"})
                      => fr.puts = 0 /\ fr.pcF # "put"
    /\ \A c \in Callers :
           (/\ pc[c] = "returned" /\ cf[c] # NoF
            /\ fetcher[cf[c]].res \notin {0, 200} /\ fetcher[cf[c]].err = "nil")
               => /\ result[c] = "response"
                  /\ status[c] = fetcher[cf[c]].res
                  /\ frc[c] # "none"
                  /\ body[c] = "AlreadyClosed" => Reaped(cf[c])
    /\ \A c \in Callers, f \in Allocated :
           (/\ cf[c] = c /\ f < c /\ fetcher[f].url = url[c]
            /\ fetcher[f].done > 0
            /\ (fetcher[f].res # 200 \/ fetcher[f].err # "nil")
            /\ fetcher[c].got \in {"unset", "miss"})
               => /\ fetcher[f].puts = 0 \/ fetcher[f].err = "CachePut"
                  /\ fetcher[c].calls = 1

\* With both cache callbacks set, a Do got a 404 response and read its body,
\* nothing was stored, and a later Do for the URL, whose CacheGet missed,
\* invoked the transport again.
ErrorNonCachingWitness ==
    /\ CacheGet /\ CachePut
    /\ \E c, d \in Callers :
           /\ c < d /\ url[c] = url[d]
           /\ cf[c] = c /\ cf[d] = d
           /\ result[c] = "response" /\ status[c] = 404 /\ body[c] = "complete"
           /\ fetcher[c].puts = 0 /\ fetcher[c].calls = 1
           /\ fetcher[d].got = "miss" /\ fetcher[d].calls = 1

(***************************************************************************)
(* C12  Identical fan-out.  As stated: the callers coalesced onto one      *)
(* fetcher all return the same error, or all return a response with the    *)
(* same status whose body, read to its end, yields the same complete byte  *)
(* sequence.                                                               *)
(***************************************************************************)
SameOutcomeAndBytes ==
    \A c, d \in Callers :
        (/\ cf[c] # NoF /\ cf[c] = cf[d]
         /\ pc[c] = "returned" /\ pc[d] = "returned")
            => /\ result[c] = result[d]
               /\ status[c] = status[d]
               /\ (body[c] # "none" /\ body[d] # "none")
                      => body[c] = "complete" /\ body[d] = "complete"

(***************************************************************************)
(* C12, amended.  The callers coalesced onto one fetcher all return the    *)
(* fetcher's terminal error, or all return a response with the fetcher's   *)
(* status; a body read to its end yields the complete byte sequence of the *)
(* buffer unless a forced Shutdown has closed the fetcher's BufferFile     *)
(* before the read, in which case the read fails with AlreadyClosed.       *)
(***************************************************************************)
IdenticalFanOut ==
    /\ \A c, d \in Callers :
           (/\ cf[c] # NoF /\ cf[c] = cf[d]
            /\ pc[c] = "returned" /\ pc[d] = "returned")
               => /\ result[c] = result[d]
                  /\ status[c] = status[d]
    /\ \A c \in Callers :
           (cf[c] # NoF /\ pc[c] = "returned")
               => /\ result[c] = (IF fetcher[cf[c]].err = "nil"
                                  THEN "response" ELSE fetcher[cf[c]].err)
                  /\ result[c] = "response" => status[c] = fetcher[cf[c]].res
                  /\ body[c] \in {"none", "complete", "AlreadyClosed"}
                  /\ body[c] = "AlreadyClosed" => Reaped(cf[c])
                  /\ (body[c] = "none" /\ frc[c] = "open" /\ ~Reaped(cf[c]))
                         => SectionRead(fetcher[cf[c]]) = "complete"

\* Two callers of one fetcher returned the same response and both read the
\* complete body.
IdenticalFanOutWitness ==
    \E c, d \in Callers :
        /\ c # d /\ cf[c] = cf[d] /\ cf[c] # NoF
        /\ result[c] = "response" /\ result[d] = "response"
        /\ status[c] = 404 /\ status[d] = 404
        /\ body[c] = "complete" /\ body[d] = "complete"

(***************************************************************************)
(* Vocabulary of the Filer's properties                                    *)
(***************************************************************************)

\* The goroutines whose open holds a token and has not returned yet.
Opening == {p \in Procs : fpc[p] = "opening"}

\* The goroutines whose open waits for a token.
Blocked == {p \in Procs : fpc[p] = "acquire"}

(***************************************************************************)
(* C13  Filer token invariant.  Whenever no open is under way, the number  *)
(* of open File handles equals the number of tokens in the limiter, and    *)
(* this number never exceeds fdLimit.                                      *)
(***************************************************************************)
HandlesEqualTokens ==
    /\ limiter <= fdLimit
    /\ Opening = {} => Cardinality(LiveHandles) = limiter

(***************************************************************************)
(* C14  Token release on failure.  The step in which Open, OpenFile or     *)
(* TempFile returns the error of the operating system gives back the token *)
(* the call took, so that the call leaves the limiter as it found it.      *)
(***************************************************************************)
TokenReleasedOnFailure ==
    [][\A p \in Procs :
           (fpc[p] = "opening" /\ fpc'[p] = "failed") => limiter' = limiter - 1]_vars

(***************************************************************************)
(* C15  Admission blocks, never fails.  With fdLimit handles open no open  *)
(* holds a token, and an open that waits for a token neither returns a     *)
(* handle nor an error; and whenever the limiter has room while an open    *)
(* waits, a waiting open gets the token (as long as the process lives).    *)
(***************************************************************************)
AdmissionBlocks ==
    /\ [](Cardinality(LiveHandles) = fdLimit => Opening = {})
    /\ [][\A p \in Procs :
             (Cardinality(LiveHandles) = fdLimit /\ fpc[p] = "acquire")
                 => /\ fpc'[p] = "acquire"
                    /\ ferr'[p] = "none"
                    /\ file'[p] = NoFile]_vars
    /\ [](\A p \in Blocked : ferr[p] = "none" /\ file[p] = NoFile)
    /\ (Blocked # {} /\ limiter < fdLimit /\ ~panicked)
           ~> (~(Blocked # {} /\ limiter < fdLimit) \/ panicked)

\* fdLimit handles are open, no shutdown is in progress, and a further open
\* waits for a token.
AdmissionBlocksWitness ==
    /\ Cardinality(LiveHandles) = fdLimit
    /\ ~draining
    /\ Blocked # {}

(***************************************************************************)
(* C16  Filer draining.  Once Shutdown has begun, an open that has not got *)
(* its token, also one that was waiting for it when Shutdown began,        *)
(* returns Canceled, without taking a token and without creating a file.   *)
(***************************************************************************)
DrainingRefusesOpen ==
    [][\A p \in Procs :
           (draining /\ fpc[p] = "acquire" /\ fpc'[p] # "acquire")
               => /\ fpc'[p] = "failed"
                  /\ ferr'[p] = "Canceled"
                  /\ limiter' = limiter
                  /\ file'[p] = NoFile]_vars

CloseNotOpen ==
    /\ ~panicked
    /\ \A p \in Procs :
           /\ fpc[p] = "reclosed" => cerr[p] = "ErrClosed"
           /\ fpc[p] \in {"nilclose", "zeroclose"} => cerr[p] = "ErrInvalid"

(***************************************************************************)
(* The BufferFile                                                          *)
(*                                                                         *)
(* One goroutine calls Write, Read, Seek and Close on a BufferFile of a    *)
(* Filer that nothing else uses.  Each call is a function of the           *)
(* BufferFile b, of the limiter l and of the answers of the operating      *)
(* system, and gives the BufferFile and the limiter it leaves, what it     *)
(* returns, and whether it panicked on the nil bf.f.                       *)
(***************************************************************************)

Max(a, b) == IF a > b THEN a ELSE b

\* append(s, 0) until len(s) is n.
Pad(s, n) == IF Len(s) < n THEN s \o [i \in 1 .. (n - Len(s)) |-> 0] ELSE s

\* The bytes p put into s from offset at on; a gap is filled with 0.
Overwrite(s, at, p) ==
    IF p = <<>>
    THEN s
    ELSE [i \in 1 .. Max(Len(s), at + Len(p)) |->
             IF i > at /\ i <= at + Len(p) THEN p[i - at]
             ELSE IF i <= Len(s) THEN s[i] ELSE 0]

\* The answers of the operating system to a write, a read or a seek.
OsIO == {"ok", "IO"}

Returns(b, l, n, err, data) ==
    [b |-> b, l |-> l, n |-> n, err |-> err, data |-> data, panic |-> FALSE]

\* A call of a method through the nil bf.f.
Panics(b, l) ==
    [b |-> b, l |-> l, n |-> 0, err |-> "panic", data |-> <<>>, panic |-> TRUE]

\* BufferFile.ensureFile: without a file, bf.f, bf.err = bf.filer.TempFile(...),
\* which takes a token and answers o.
ensureFile(b, l, o) ==
    IF b.f # "nil"
    THEN [b |-> b, l |-> l]
    ELSE [b |-> IF o = "ok"
                THEN [b EXCEPT !.f = "open", !.err = "nil", !.fdata = <<>>, !.fpos = 0]
                ELSE [b EXCEPT !.err = IF o = "err" THEN "IO" ELSE "Exist"],
          l |-> AfterOpen("TempFile", o, l + 1)]

\* BufferFile.Write(p); o is the answer to TempFile, w to the write of the
\* os file.
Write(b, l, m, p, o, w) ==
    LET n0 == 0    \* the result n, which nothing has assigned yet
        finalOff == b.off + Len(p)
        growTo == IF n0 > m THEN m ELSE n0
        b1 == IF finalOff > Len(b.buf) /\ Len(b.buf) < m
              THEN [b EXCEPT !.buf = Pad(@, growTo)]
              ELSE b
        e == IF finalOff >= m THEN ensureFile(b1, l, o) ELSE [b |-> b1, l |-> l]
        n1 == IF e.b.off < Len(e.b.buf)
              THEN Min(Len(e.b.buf) - e.b.off, Len(p))
              ELSE 0
        b2 == [e.b EXCEPT !.buf = Overwrite(@, e.b.off, SubSeq(p, 1, n1)),
                          !.off = @ + n1]
        rest == SubSeq(p, n1 + 1, Len(p))
        n2 == IF w = "ok" THEN Len(rest) ELSE 0
        b3 == [b2 EXCEPT !.err = IF w = "ok" THEN "nil" ELSE "IO",
                         !.fdata = IF w = "ok" THEN Overwrite(@, b2.fpos, rest) ELSE @,
                         !.fpos = @ + n2,
                         !.off = @ + n2]
        fpos == b3.off - Len(b3.buf)
        b4 == IF fpos > b3.flen THEN [b3 EXCEPT !.flen = fpos] ELSE b3
    IN  IF b.err # "nil" THEN Returns(b, l, 0, b.err, <<>>)
        ELSE IF rest = <<>> THEN Returns(b2, e.l, n1, "nil", <<>>)
        ELSE IF b2.f = "nil" THEN Panics(b2, e.l)
        ELSE Returns(b4, e.l, n1 + n2, b4.err, <<>>)

\* Every error of the read of the os file is kept in bf.err.
KeepAnyError(err, old) == err

\* Read keeps the error of the os file in bf.err unless it is io.EOF.
KeepError(err, old) == IF err # "EOF" THEN err ELSE old

\* BufferFile.Read(p) with len(p) = k; w is the answer to the read of the
\* os file.
Read(b, l, k, w) ==
    LET n1 == Min(k, Len(b.buf) - b.off)
        avail == Len(b.fdata) - b.fpos
        n2 == IF w = "ok" /\ avail > 0 THEN Min(k, avail) ELSE 0
        err == IF w # "ok" THEN "IO"
               ELSE IF k > 0 /\ n2 = 0 THEN "EOF" ELSE "nil"
        b2 == [b EXCEPT !.off = @ + n2, !.fpos = @ + n2,
                        !.err = KeepError(err, @)]
    IN  IF b.err # "nil" THEN Returns(b, l, 0, b.err, <<>>)
        ELSE IF b.off < Len(b.buf)
             THEN Returns([b EXCEPT !.off = @ + n1], l, n1, "nil",
                          SubSeq(b.buf, b.off + 1, b.off + n1))
        ELSE IF b.f = "nil" THEN Returns(b, l, 0, "EOF", <<>>)
        ELSE Returns(b2, l, n2, err, SubSeq(b.fdata, b.fpos + 1, b.fpos + n2))

\* The offset Seek aims at.
Target(b, offset, whence) ==
    CASE whence = 1 -> offset + b.off
      [] whence = 2 -> offset + Len(b.buf) + b.flen
      [] OTHER      -> offset

\* BufferFile.Seek(offset, whence); o is the answer to TempFile, w to the
\* seek of the os file.
Seek(b, l, m, offset, whence, o, w) ==
    LET t == Target(b, offset, whence)
        e == IF t > m THEN ensureFile(b, l, o) ELSE [b |-> b, l |-> l]
        to == IF t < Len(e.b.buf) THEN 0 ELSE t - Len(e.b.buf)
        b2 == IF t < Len(e.b.buf) /\ e.b.f = "nil"
              THEN e.b
              ELSE [e.b EXCEPT !.err = IF w = "ok" THEN "nil" ELSE "IO",
                               !.fpos = IF w = "ok" THEN to ELSE @]
        b3 == [b2 EXCEPT !.off = t]
    IN  IF b.err # "nil" THEN Returns(b, l, 0, b.err, <<>>)
        ELSE IF t < 0 THEN Returns(b, l, -1, "Negative", <<>>)
        ELSE IF t >= Len(e.b.buf) /\ e.b.f = "nil" THEN Panics(e.b, e.l)
        ELSE Returns(b3, e.l, t, b3.err, <<>>)

\* BufferFile.Close; e is the error of closing and removing the os file.
CloseBuffer(b, l, e) ==
    LET r == Close([NoFile EXCEPT !.os = "open", !.isTemp = TRUE], l, e)
        err == IF b.f # "nil" THEN r.err ELSE "nil"
        b1 == IF b.f # "nil"
              THEN [b EXCEPT !.f = "nil", !.fdata = <<>>, !.fpos = 0]
              ELSE b
        l1 == IF b.f # "nil" THEN r.limiter ELSE l
    IN  IF err # "nil"
        THEN Returns([b1 EXCEPT !.err = err], l1, 0, err, <<>>)
        ELSE Returns([b1 EXCEPT !.err = IF @ = "nil" THEN "ErrClosed" ELSE @],
                     l1, 0, "nil", <<>>)

\* The variables of the Client and of the Filer's goroutines, which the
\* calls on the BufferFile leave alone.
beyondBuffer == <<CacheGet, CachePut, clientVars, fetcher, callerVars, pcS,
                  shutdownCtxDone, histVars, draining, fpc, fop, file, ferr,
                  cerr, fpcS, filerCtxDone, shutdownErr, bufMax, testerVars>>

BufferInit ==
    /\ CacheGet = FALSE
    /\ CachePut = FALSE
    /\ ClientFresh
    /\ FilerFresh
    /\ \E m \in 1 .. MaxBufMax : BufferNew(m)
    /\ TesterIdle

\* The slices given to Write.
Slices == UNION {[1 .. n -> Bytes] : n \in 0 .. MaxLen}

\* A call has returned r, or panicked.
Called(op, r, far) ==
    /\ bf' = r.b
    /\ limiter' = r.l
    /\ panicked' = r.panic
    /\ ret' = [op |-> op, n |-> r.n, err |-> r.err, data |-> r.data]
    /\ nops' = nops + 1
    /\ reach' = Max(reach, far)
    /\ UNCHANGED beyondBuffer

\* The goroutine may make a call: it did not panic, and TempFile finds room
\* in the limiter.
MayCall == ~panicked /\ nops < MaxOps /\ Admits(limiter)

BufferWrite(p) ==
    /\ MayCall
    /\ \E o \in OsOutcomes("TempFile"), w \in OsIO :
           Called("Write", Write(bf, limiter, bufMax, p, o, w),
                  IF bf.err = "nil" THEN bf.off + Len(p) ELSE 0)

BufferRead(k) ==
    /\ MayCall
    /\ \E w \in OsIO : Called("Read", Read(bf, limiter, k, w), 0)

BufferSeek(offset, whence) ==
    /\ MayCall
    /\ \E o \in OsOutcomes("TempFile"), w \in OsIO :
           Called("Seek", Seek(bf, limiter, bufMax, offset, whence, o, w),
                  IF bf.err = "nil" THEN Target(bf, offset, whence) ELSE 0)

BufferClose ==
    /\ MayCall
    /\ \E e \in {"nil", "IO"} : Called("Close", CloseBuffer(bf, limiter, e), 0)

BufferNext ==
    \/ \E p \in Slices : BufferWrite(p)
    \/ \E k \in 0 .. MaxLen : BufferRead(k)
    \/ \E offset \in -1 .. MaxBufMax + 1, whence \in {0, 1, 2} : BufferSeek(offset, whence)
    \/ BufferClose

BufferSpec == BufferInit /\ [][BufferNext]_vars

(***************************************************************************)
(* C19  BufferFile acquires a token only on spill.  As long as no Write    *)
(* has ended and no Seek has aimed beyond bufMax (a Write that ends at     *)
(* bufMax exactly included), a BufferFile without error has no spill file  *)
(* and its Filer has given out no token; a BufferFile with a spill file    *)
(* holds one token, and after Close the Filer has all its tokens back.     *)
(***************************************************************************)
TokenOnlyOnSpill ==
    /\ (reach <= bufMax /\ bf.err = "nil") => bf.f = "nil" /\ limiter = 0
    /\ bf.f = "open" => limiter = 1
    /\ ret.op = "Close" => bf.f = "nil" /\ limiter = 0

(***************************************************************************)
(* C20  BufferFile memory invariant.  After every Write, Read and Seek     *)
(* len(buf) <= bufMax, and with len(buf) < bufMax the spill length flen is *)
(* 0, the spill file, if any, is empty, and the total length is len(buf).  *)
(***************************************************************************)
MemoryInvariant ==
    /\ Len(bf.buf) <= bufMax
    /\ Len(bf.buf) < bufMax
           => /\ bf.flen = 0
              /\ Len(bf.fdata) = 0
              /\ Len(bf.buf) + bf.flen = Len(bf.buf)

(***************************************************************************)
(* C21  BufferFile spill-position invariant.  Whenever a spill file exists *)
(* and no error is set, after every Write, Read and Seek the position of   *)
(* the spill file is max(0, off - bufMax) and its length is flen.          *)
(***************************************************************************)
SpillPosition ==
    (bf.f = "open" /\ bf.err = "nil" /\ ret.op \in {"Write", "Read", "Seek"})
        => /\ bf.fpos = Max(0, bf.off - bufMax)
           /\ Len(bf.fdata) = bf.flen

(***************************************************************************)
(* ioxtest.Tester on a BufferFile                                          *)
(*                                                                         *)
(* TestBufferFile makes a BufferFile F1 and an os file F2 from one Filer   *)
(* and runs a Tester on them: NumEvents times it draws read, write or seek *)
(* and applies it to F1 and to F2, and when nothing failed it compares     *)
(* what the two hold.  The operating system answers every call; a test     *)
(* that could not create F2 runs no Tester.                                *)
(***************************************************************************)

\* The most events a Tester is run for.
MaxEvents == 3

\* os.File.Write(p) on the file f.
RefWrite(f, p) ==
    [f |-> [data |-> Overwrite(f.data, f.pos, p), pos |-> f.pos + Len(p)],
     n |-> Len(p), err |-> "nil", data |-> <<>>]

\* os.File.Read(p) with len(p) = k.
RefRead(f, k) ==
    LET avail == Len(f.data) - f.pos
        n == IF avail > 0 THEN Min(k, avail) ELSE 0
    IN  [f |-> [f EXCEPT !.pos = @ + n], n |-> n,
         err |-> IF k > 0 /\ n = 0 THEN "EOF" ELSE "nil",
         data |-> SubSeq(f.data, f.pos + 1, f.pos + n)]

\* os.File.Seek(offset, whence).
RefSeek(f, offset, whence) ==
    LET t == CASE whence = 1 -> offset + f.pos
               [] whence = 2 -> offset + Len(f.data)
               [] OTHER      -> offset
    IN  IF t < 0
        THEN [f |-> f, n |-> 0, err |-> "Invalid", data |-> <<>>]
        ELSE [f |-> [f EXCEPT !.pos = t], n |-> t, err |-> "nil", data |-> <<>>]

\* The loop of Tester.read on F1: Read until acc holds k bytes or an error.
RECURSIVE ReadFull1(_, _, _, _)
ReadFull1(b, l, k, acc) ==
    IF Len(acc) < k
    THEN LET r == Read(b, l, k - Len(acc), "ok")
         IN  IF r.err # "nil"
             THEN [b |-> r.b, n |-> Len(acc) + r.n, err |-> r.err,
                   data |-> acc \o r.data]
             ELSE ReadFull1(r.b, l, k, acc \o r.data)
    ELSE [b |-> b, n |-> Len(acc), err |-> "nil", data |-> acc]

\* The loop of Tester.read on F2.
RECURSIVE ReadFull2(_, _, _)
ReadFull2(f, k, acc) ==
    IF Len(acc) < k
    THEN LET r == RefRead(f, k - Len(acc))
         IN  IF r.err # "nil"
             THEN [f |-> r.f, n |-> Len(acc) + r.n, err |-> r.err,
                   data |-> acc \o r.data]
             ELSE ReadFull2(r.f, k, acc \o r.data)
    ELSE [f |-> f, n |-> Len(acc), err |-> "nil", data |-> acc]

\* io.Copy(h, r1) of finalCompare: Read, into a buffer larger than what F1
\* holds, until EOF, which is no error of the copy.
RECURSIVE Copy1(_, _, _)
Copy1(b, l, acc) ==
    LET r == Read(b, l, Len(b.buf) + Len(b.fdata) + 1, "ok")
    IN  IF r.err = "EOF"
        THEN [b |-> r.b, n |-> Len(acc) + r.n, err |-> "nil", data |-> acc \o r.data]
        ELSE IF r.err # "nil"
        THEN [b |-> r.b, n |-> Len(acc) + r.n, err |-> r.err, data |-> acc \o r.data]
        ELSE Copy1(r.b, l, acc \o r.data)

\* io.Copy(h, r2) of finalCompare.
RECURSIVE Copy2(_, _)
Copy2(f, acc) ==
    LET r == RefRead(f, Len(f.data) + 1)
    IN  IF r.err = "EOF"
        THEN [f |-> r.f, n |-> Len(acc) + r.n, err |-> "nil", data |-> acc \o r.data]
        ELSE Copy2(r.f, acc \o r.data)

\* What the Tester's calls leave alone.
beyondTester == <<CacheGet, CachePut, clientVars, fetcher, callerVars, pcS,
                  shutdownCtxDone, histVars, draining, fpc, fop, file, ferr,
                  cerr, fpcS, filerCtxDone, shutdownErr, bufMax, ret, nops,
                  reach>>

TesterInit ==
    /\ CacheGet = FALSE
    /\ CachePut = FALSE
    /\ ClientFresh
    /\ FilerFresh
    /\ \E m \in 1 .. MaxBufMax : BufferNew(m)
    /\ TesterIdle

\* TestBufferFile: F2 is a TempFile of the Filer of the BufferFile, and the
\* Tester is made to run n events.
TestBufferFile(n) ==
    /\ ft.NumEvents = 0
    /\ Admits(limiter)
    /\ limiter' = AfterOpen("TempFile", "ok", limiter + 1)
    /\ f2' = NewFile
    /\ ft' = [NoTester EXCEPT !.NumEvents = n]
    /\ UNCHANGED <<bf, panicked, beyondTester>>

\* One task has run, or the comparison: F1 is b with the limiter l, F2 is f,
\* the Tester is t, and pan tells a panic that nothing recovered.
Ran(b, l, f, t, pan) ==
    /\ bf' = b
    /\ limiter' = l
    /\ f2' = f
    /\ ft' = t
    /\ panicked' = pan
    /\ UNCHANGED beyondTester

\* The loop of Run draws one more task.
Event == ft.i < ft.NumEvents /\ ~ft.failed /\ ~panicked

\* The Tester after the task op, which reported an error to T or did not.
After(t, op, errorf) == [t EXCEPT !.i = @ + 1, !.op = op, !.failed = errorf]

\* n and the error differ between F1 and F2.
Differ(r1, r2) == r1.n # r2.n \/ (r1.err = "nil") # (r2.err = "nil")

\* Tester.write with the bytes p.  A panic of F1 is recovered by Run and
\* reported to T.
TesterWrite(p) ==
    /\ Event
    /\ LET r1 == Write(bf, limiter, bufMax, p, "ok", "ok")
           r2 == RefWrite(f2, p)
           off == ft.off + r1.n
           t == [ft EXCEPT !.off = off, !.len = Max(@, off)]
       IN  IF r1.panic
           THEN Ran(r1.b, r1.l, f2, After(ft, "write", TRUE), FALSE)
           ELSE Ran(r1.b, r1.l, r2.f, After(t, "write", Differ(r1, r2)), FALSE)

\* Tester.read with a buffer of k bytes.
TesterRead(k) ==
    /\ Event
    /\ LET r1 == ReadFull1(bf, limiter, k, <<>>)
           r2 == ReadFull2(f2, k, <<>>)
           t == [ft EXCEPT !.off = @ + r1.n]
           errorf == \/ Differ(r1, r2)
                     \/ (r1.err = "EOF") # (r2.err = "EOF")
                     \/ r1.data # r2.data
       IN  Ran(r1.b, limiter, r2.f, After(t, "read", errorf), FALSE)

\* Tester.seek.  A seek that went beyond ft.len is rewound to ft.len.
TesterSeek(offset, whence) ==
    /\ Event
    /\ LET r1 == Seek(bf, limiter, bufMax, offset, whence, "ok", "ok")
           r2 == RefSeek(f2, offset, whence)
           w1 == Seek(r1.b, r1.l, bufMax, ft.len, 0, "ok", "ok")
           w2 == RefSeek(r2.f, ft.len, 0)
           t == [ft EXCEPT !.off = ft.len]
       IN  IF r1.panic
           THEN Ran(r1.b, r1.l, f2, After(ft, "seek", TRUE), FALSE)
           ELSE IF r1.n <= ft.len
           THEN Ran(r1.b, r1.l, r2.f, After(ft, "seek", Differ(r1, r2)), FALSE)
           ELSE IF w1.panic
           THEN Ran(w1.b, w1.l, r2.f, After(ft, "seek", TRUE), FALSE)
           ELSE Ran(w1.b, w1.l, w2.f,
                    After(t, "seek", Differ(r1, r2) \/ w1.err # "nil" \/ w2.err # "nil"),
                    FALSE)

\* Tester.finalCompare, after the loop and when nothing failed: both files
\* are sought to 0 and copied to their ends, and the lengths and the bytes
\* are compared.  Nothing recovers a panic here.
TesterFinal ==
    /\ ft.NumEvents > 0
    /\ ft.i = ft.NumEvents
    /\ ~ft.failed
    /\ ~ft.compared
    /\ ~panicked
    /\ LET s1 == Seek(bf, limiter, bufMax, 0, 0, "ok", "ok")
           s2 == RefSeek(f2, 0, 0)
           c1 == Copy1(s1.b, s1.l, <<>>)
           c2 == Copy2(s2.f, <<>>)
           fatal == c1.err # "nil" \/ c1.n # c2.n \/ c1.data # c2.data
       IN  IF s1.panic
           THEN Ran(s1.b, s1.l, f2, [ft EXCEPT !.failed = TRUE], TRUE)
           ELSE IF s1.err # "nil"
           THEN Ran(s1.b, s1.l, f2, [ft EXCEPT !.failed = TRUE], FALSE)
           ELSE Ran(c1.b, s1.l, c2.f,
                    [ft EXCEPT !.failed = fatal, !.compared = TRUE,
                               !.nFinal = c1.n, !.out = c1.data],
                    FALSE)

TesterNext ==
    \/ \E n \in 1 .. MaxEvents : TestBufferFile(n)
    \/ \E p \in Slices : TesterWrite(p)
    \/ \E k \in 0 .. MaxLen : TesterRead(k)
    \/ \E offset \in 0 .. MaxLen, whence \in {0, 1, 2} : TesterSeek(offset, whence)
    \/ TesterFinal

TesterSpec == TesterInit /\ [][TesterNext]_vars

(***************************************************************************)
(* C22  Spill round-trip.  A Tester run for one event, the Write of the    *)
(* bytes B to the fresh BufferFile, does not fail, and its comparison,     *)
(* which seeks to 0 and reads to EOF, gets exactly B (which is what the    *)
(* os file F2 holds after the same Write).                                 *)
(***************************************************************************)
RoundTrip ==
    (ft.NumEvents = 1 /\ ft.op = "write")
        => /\ ~ft.failed
           /\ ~panicked
           /\ ft.compared => ft.out = f2.data

(***************************************************************************)
(* C23  A BufferFile is observationally equivalent to a plain file.  In a  *)
(* run of the Tester every Write, Read and Seek returns on the BufferFile  *)
(* the count or position, the class of error and the bytes it returns on   *)
(* the os file, and the final contents are equal: nothing is reported to T *)
(* and nothing panics.                                                     *)
(***************************************************************************)
LockstepEquivalent == ~ft.failed /\ ~panicked

(***************************************************************************)
(* C24  Sticky error.  A Write, Read or Seek that leaves the BufferFile    *)
(* with its sticky error set returns that error, without a panic, and when *)
(* the error was set before the call it leaves off, the memory buffer,     *)
(* flen and the spill file as they were.                                   *)
(***************************************************************************)
StickyError ==
    [][(ret'.op \in {"Write", "Read", "Seek"} /\ nops' = nops + 1 /\ bf'.err # "nil")
           => /\ ret'.err = bf'.err
              /\ ~panicked'
              /\ bf.err # "nil" => bf' = bf]_vars

(***************************************************************************)
(* C25  Non-sticky errors.  A Read that returns EOF, with or without a     *)
(* spill file, and a Seek whose target is negative do not panic, do not    *)
(* set the sticky error, and leave off, the memory buffer, flen, the spill *)
(* file and the limiter as they were: the BufferFile is the one the failed *)
(* call found, so the next call behaves as if it had not happened.         *)
(***************************************************************************)
NonStickyErrors ==
    [][(/\ nops' = nops + 1
        /\ \/ ret'.op = "Read" /\ ret'.err = "EOF"
           \/ ret'.op = "Seek" /\ ret'.err = "Negative")
           => /\ bf.err = "nil"
              /\ bf' = bf
              /\ limiter' = limiter
              /\ ~panicked']_vars

\* A Read at the end of a BufferFile with a spill file has returned EOF.
NonStickyErrorsWitness ==
    /\ ret.op = "Read"
    /\ ret.err = "EOF"
    /\ bf.f = "open"
    /\ bf.flen > 0
    /\ bf.err = "nil"

(***************************************************************************)
(* C26  Cache-hit response.  When the body of a fetcher came from CacheGet *)
(* and the transport was not called, the Do of each of its waiters returns *)
(* a response with status 200, for the caller's own request, with a body   *)
(* over the BufferFile.                                                    *)
(***************************************************************************)
CacheHitResponse ==
    \A c \in Callers :
        (/\ pc[c] = "returned"
         /\ cf[c] # NoF
         /\ fetcher[cf[c]].got = "hit")
            => /\ fetcher[cf[c]].calls = 0
               /\ result[c] = "response"
               /\ status[c] = 200
               /\ url[c] = fetcher[cf[c]].url
               /\ frc[c] # "none"

(***************************************************************************)
(* C27  Teardown on last release.  A fetcher whose reqs is 0 is out of the *)
(* registry and its BufferFile is closed, and a fetcher whose reqs is not  *)
(* 0 is in the registry with its BufferFile open: the three change in one  *)
(* step.  The BufferFile of a fetcher is never closed twice, and it is     *)
(* closed once no caller is outstanding on the fetcher.                    *)
(***************************************************************************)
TeardownOnLastRelease ==
    \A f \in Allocated :
        /\ fetcher[f].closed <= 1
        /\ fetcher[f].reqs = 0 <=> fetcher[f].closed = 1
        /\ fetcher[f].reqs = 0 <=> fetchers[fetcher[f].url] # f
        /\ Waiters(f) = {} => fetcher[f].closed = 1

\* Two callers shared a fetcher and both closed their bodies, the second
\* close being the last release.
TeardownWitness ==
    \E c, d \in Callers :
        /\ c # d
        /\ cf[c] # NoF
        /\ cf[c] = cf[d]
        /\ frc[c] = "closed" /\ closeErr[c] = "nil"
        /\ frc[d] = "closed" /\ closeErr[d] = "nil"
        /\ fetcher[cf[c]].closed = 1

(***************************************************************************)
(* C28  shutdown-done is signalled exactly once.  c.shutdownDone is never  *)
(* closed twice; it is closed exactly when c.shutdown is closed and the    *)
(* registry is empty, that is from the first such moment on, whether that  *)
(* is the entry of Shutdown, a last release or the force loop; and when    *)
(* Shutdown has returned it has been closed once.                          *)
(***************************************************************************)
ShutdownDoneOnce ==
    /\ shutdownDone <= 1
    /\ shutdownDone = 1 <=> (shutdown /\ Registered(fetchers) = {})
    /\ pcS = "returned" => shutdownDone = 1

\* Shutdown found a fetch in flight, shutdownDone was closed, and a body
\* was closed after the force loop had reaped its fetcher.
ShutdownDoneOnceWitness ==
    /\ inFlightAtShutdown
    /\ shutdownDone = 1
    /\ \E c \in Callers : frc[c] = "closed" /\ closeErr[c] = "Canceled"

(***************************************************************************)
(* C29  Coalescing outlives the fetch.  A Do(U) that is admitted when a    *)
(* fetcher of U has signalled completion and a caller is still outstanding *)
(* on it joins that fetcher: its reqs goes up by one, no fetcher is        *)
(* allocated and no CacheGet and no transport call is made.  A caller that *)
(* joined a fetcher has none of its own, and the response it gets has the  *)
(* status of and a body over the BufferFile of the fetcher it joined.      *)
(***************************************************************************)
CoalescingOutlivesFetch ==
    [][\A c \in Callers :
           /\ \A f \in Allocated :
                  (/\ pc[c] = "checked" /\ pc'[c] = "waiting"
                   /\ fetcher[f].url = url[c]
                   /\ fetcher[f].done > 0
                   /\ Waiters(f) # {})
                      => /\ cf'[c] = f
                         /\ fetcher'[f] = [fetcher[f] EXCEPT !.reqs = @ + 1]
                         /\ \A g \in FIDs \ {f} : fetcher'[g] = fetcher[g]
                         /\ fetchers' = fetchers
           /\ (cf'[c] \notin {NoF, c} /\ pc[c] = "waiting" /\ pc'[c] = "returned")
                  => /\ fetcher[c] = NoFetcher
                     /\ result'[c] = "response"
                            => /\ frc'[c] = "open"
                               /\ status'[c] = fetcher[cf[c]].res
                               /\ fetcher' = fetcher]_vars

\* After the only fetch was stored and while its first caller still held
\* its body, a second caller joined the fetcher and got a response from it.
CoalescingWitness ==
    \E c \in Callers :
        /\ afterStore[c]
        /\ cf[c] \notin {NoF, c}
        /\ result[c] = "response"
        /\ frc[c] = "open"
        /\ fetcher[cf[c]].reqs = 2
        /\ Cardinality(Allocated) = 1

(***************************************************************************)
(* C30  Fetch-task ordering.  Within one fetcher: before fetchFromCache    *)
(* has returned nothing else has happened; the transport is invoked at     *)
(* most once, and only after CacheGet, when set, was called once and       *)
(* reported a miss without error; CachePut is called at most once, and     *)
(* only after a transport answer of status 200 was copied and closed       *)
(* without error; f.done is closed once, at the end of the task, so while  *)
(* CachePut has not returned every caller of the fetcher still waits.      *)
(***************************************************************************)
FetchOrdering ==
    \A f \in Allocated :
        LET fr == fetcher[f]
            past == fr.pcF \in {"put", "done"}
        IN  /\ fr.pcF = "start"
                => fr.gets = 0 /\ fr.calls = 0 /\ fr.puts = 0 /\ fr.done = 0
            /\ fr.pcF # "start" => fr.gets = (IF CacheGet THEN 1 ELSE 0)
            /\ fr.calls <= 1 /\ fr.puts <= 1 /\ fr.done <= 1
            /\ fr.calls = 1 <=> fr.got \in {"miss", "unset"}
            /\ fr.got = "miss" <=> (CacheGet /\ fr.calls = 1)
            /\ fr.pcF \in {"transport", "copy"} => fr.calls = 1 /\ fr.puts = 0
            /\ (fr.pcF = "put" \/ fr.puts = 1)
                   => CachePut /\ fr.calls = 1 /\ fr.res = 200
            /\ fr.pcF = "put" => fr.puts = 0 /\ fr.err = "nil"
            /\ fr.done = 1 <=> fr.pcF = "done"
            /\ fr.done = 0 => \A c \in Callers : cf[c] = f => pc[c] = "waiting"

\* A fetch went through CacheGet (a miss), the transport, the copy and
\* CachePut, and a caller was then given its response.
FetchOrderingWitness ==
    \E f \in Allocated :
        /\ fetcher[f].got = "miss"
        /\ fetcher[f].puts = 1
        /\ fetcher[f].done = 1
        /\ \E c \in Callers : cf[c] = f /\ result[c] = "response"

(***************************************************************************)
(* C31  Cache errors reach the waiters.  After an error of CacheGet the    *)
(* transport is never invoked and the Do of every caller of the fetcher    *)
(* returns that error; after an error of CachePut, which follows a copied  *)
(* answer of status 200, the Do of every caller of the fetcher returns     *)
(* that error and no response.                                             *)
(***************************************************************************)
CacheErrorsReachWaiters ==
    \A f \in Allocated :
        LET fr == fetcher[f]
            callers == {c \in Callers : cf[c] = f /\ pc[c] = "returned"}
        IN  /\ fr.got = "err"
                => /\ fr.calls = 0 /\ fr.puts = 0
                   /\ fr.done = 1 /\ fr.err = "CacheGet"
                   /\ \A c \in callers : result[c] = "CacheGet" /\ frc[c] = "none"
            /\ (fr.puts = 1 /\ fr.err = "CachePut")
                => /\ fr.res = 200 /\ fr.calls = 1
                   /\ \A c \in callers : result[c] = "CachePut" /\ frc[c] = "none"
            /\ (fr.puts = 1 /\ fr.done = 1) => fr.err \in {"nil", "CachePut"}

\* Two callers of one fetcher were both given the error of CachePut.
CacheErrorsWitness ==
    \E c, d \in Callers :
        /\ c # d
        /\ cf[c] # NoF /\ cf[c] = cf[d]
        /\ fetcher[cf[c]].puts = 1
        /\ result[c] = "CachePut" /\ result[d] = "CachePut"

(***************************************************************************)
(* C32  The Client mutex is never held across I/O or callbacks.  No        *)
(* goroutine that holds c.mu calls the log sink or closes and unlinks the  *)
(* spill file of a BufferFile.  (CacheGet, CachePut, the transport and the *)
(* writes of the BufferFile are steps of the fetch goroutine, which never  *)
(* takes c.mu.)                                                            *)
(***************************************************************************)
MutexNotHeldAcrossIO == underMu = {}

(***************************************************************************)
(* C33  Do never hands out a dead buffer.  At the moment a Do returns a    *)
(* response, the BufferFile of its fetcher is open and the fetcher counts  *)
(* the caller: its reqs is at least 1.                                     *)
(***************************************************************************)
NoDeadBuffer ==
    [][\A c \in Callers :
           (pc[c] = "waiting" /\ pc'[c] = "returned" /\ result'[c] = "response")
               => /\ fetcher'[cf[c]].closed = 0
                  /\ fetcher'[cf[c]].reqs >= 1]_vars

(***************************************************************************)
(* C34  Single writer before completion.  While the fetch task of a        *)
(* fetcher runs, that is writes the BufferFile (CacheGet, the copy of the  *)
(* body) or reads it for CachePut, f.done is not closed and the BufferFile *)
(* is not closed: a BufferFile is closed only after its fetch task has     *)
(* signalled completion.                                                   *)
(***************************************************************************)
SingleWriterBeforeCompletion ==
    \A f \in Allocated :
        /\ fetcher[f].pcF \in {"start", "transport", "copy", "put"}
               => fetcher[f].done = 0
        /\ fetcher[f].closed > 0 => fetcher[f].done > 0

(***************************************************************************)
(* C35  Completion fires exactly once.  f.done of a fetcher is never       *)
(* closed twice, and once closed stays closed; when the cache callbacks    *)
(* and the transport return, f.done of every fetcher that was allocated is *)
(* eventually closed, and every Do that waits returns.                     *)
(***************************************************************************)
CompletionOnce ==
    /\ [](\A f \in FIDs : fetcher[f].done <= 1)
    /\ \A f \in FIDs : fetcher[f].exists ~> [](fetcher[f].done = 1)
    /\ \A c \in Callers : pc[c] = "waiting" ~> pc[c] = "returned"

\* Two fetches have signalled completion on different paths, one after a
\* cache hit and one after CachePut, and a caller has returned.
CompletionOnceWitness ==
    \E f, g \in Allocated :
        /\ fetcher[f].done = 1 /\ fetcher[f].got = "hit"
        /\ fetcher[g].done = 1 /\ fetcher[g].puts = 1
        /\ \E c \in Callers : cf[c] = g /\ pc[c] = "returned"

(***************************************************************************)
(* C36  A failed Do holds no reference.  A Do that has returned an error   *)
(* has no body and is not counted: a fetcher whose fetch failed counts the *)
(* callers that still wait in Do and no others, and once none waits it is  *)
(* out of the registry and its BufferFile is closed, so the next Do of its *)
(* URL allocates a fetcher; and when Shutdown has begun and every fetch    *)
(* has failed and every caller has returned, shutdownDone is closed.       *)
(***************************************************************************)
FailedDoHoldsNoReference ==
    LET waiting(f) == {c \in Callers : cf[c] = f /\ pc[c] = "waiting"}
        failed(f) == fetcher[f].done = 1 /\ fetcher[f].err # "nil"
    IN  /\ \A c \in Callers :
               (pc[c] = "returned" /\ result[c] # "response") => frc[c] = "none"
        /\ \A f \in Allocated :
               failed(f)
                   => /\ fetcher[f].reqs
                             = (IF Reaped(f) THEN 0 ELSE Cardinality(waiting(f)))
                      /\ waiting(f) = {}
                             => /\ fetchers[fetcher[f].url] # f
                                /\ fetcher[f].closed = 1
        /\ (shutdown /\ \A f \in Allocated : failed(f) /\ waiting(f) = {})
               => shutdownDone = 1

\* A Do failed with a transport error and closed nothing, and a later Do of
\* the same URL allocated a fetcher of its own.
FailedDoWitness ==
    \E c, d \in Callers :
        /\ c # d
        /\ url[c] = url[d]
        /\ cf[c] = c /\ result[c] = "Transport" /\ frc[c] = "none"
        /\ cf[d] = d /\ fetchers[url[d]] = d

(***************************************************************************)
(* C37  Body Close is idempotent for the reference count.  As stated: the  *)
(* first Close of a response body takes one off the reqs of its fetcher,   *)
(* and the second and every later Close returns nil and leaves every       *)
(* fetcher, the registry and shutdownDone as they are.                     *)
(***************************************************************************)
CloseDecrementsOnce ==
    [][\A c \in Callers :
           /\ (BodyClose(c) /\ frc[c] = "open")
                  => fetcher'[cf[c]].reqs = fetcher[cf[c]].reqs - 1
           /\ (BodyClose(c) /\ frc[c] # "open")
                  => /\ closeErr'[c] = "nil"
                     /\ fetcher' = fetcher
                     /\ fetchers' = fetchers
                     /\ shutdownDone' = shutdownDone]_vars

(***************************************************************************)
(* C37, amended.  The first Close of a response body takes one off the     *)
(* reqs of its fetcher and returns nil, unless the force loop of Shutdown  *)
(* has reaped the fetcher: then it returns Canceled and changes nothing.   *)
(* The second and every later Close returns nil and leaves every fetcher,  *)
(* the registry and shutdownDone as they are.                              *)
(***************************************************************************)
CloseIdempotent ==
    [][\A c \in Callers :
           /\ (BodyClose(c) /\ frc[c] = "open" /\ fetcher[cf[c]].reqs > 0)
                  => /\ fetcher'[cf[c]].reqs = fetcher[cf[c]].reqs - 1
                     /\ closeErr'[c] = "nil"
           /\ (BodyClose(c) /\ frc[c] = "open" /\ fetcher[cf[c]].reqs = 0)
                  => /\ Reaped(cf[c])
                     /\ closeErr'[c] = "Canceled"
                     /\ fetcher' = fetcher
                     /\ fetchers' = fetchers
                     /\ shutdownDone' = shutdownDone
           /\ (BodyClose(c) /\ frc[c] # "open")
                  => /\ closeErr'[c] = "nil"
                     /\ fetcher' = fetcher
                     /\ fetchers' = fetchers
                     /\ shutdownDone' = shutdownDone]_vars

\* A caller has closed its body twice while another caller of the same
\* fetcher still holds its body: the fetcher counts that one caller.
CloseIdempotentWitness ==
    \E c, d \in Callers :
        /\ c # d
        /\ cf[c] # NoF /\ cf[c] = cf[d]
        /\ frc[c] = "reclosed" /\ closeErr[c] = "nil"
        /\ frc[d] = "open"
        /\ fetcher[cf[c]].reqs = 1

====
